---- MODULE Spec2Model ----
(***************************************************************************)
(* The booking and wallet ledger engine of sei-solar-depin: the three     *)
(* contracts UserWallet (Balance Ledger), ChargingStation (Station        *)
(* Registry) and ChargingBooking (Booking Engine).                        *)
(*                                                                         *)
(* Every external function of a contract is an operator from the state    *)
(* before the call (a record S of all three contracts' storage and native *)
(* balances) and the call's arguments to a result record                  *)
(*   [ok, err, st, ret, events, ...]                                       *)
(* computed in the order of the source's statements.  A revert gives      *)
(* ok = FALSE and the state the call started from: the substrate undoes   *)
(* a reverted call frame.  The actions apply these operators to the       *)
(* current state with arguments drawn from small sets.                    *)
(***************************************************************************)
EXTENDS Integers, Sequences, FiniteSets, TLC

\* ------------------------------------------------------------- identities
NullAddr == "0x0"
WalletAddr == "UserWallet"
BookingAddr == "ChargingBooking"
StationAddr == "ChargingStation"
\* Externally owned accounts; "op" deploys UserWallet and is its first admin.
Deployer == "op"
EOA == {"op", "alice", "bob"}
\* Every identity a balance or an earnings entry can be recorded for.
Addr == EOA \cup {WalletAddr}

\* ------------------------------------------------------- program constants
SCALE_FACTOR == 1000
GasEstimateUnits == 250000
MaxLatitude == 90000000
MaxLongitude == 180000000
ACTIVE == "ACTIVE"
COMPLETED == "COMPLETED"
STOPPED == "STOPPED"

\* ---------------------------------------------------------------- bounds
MaxStations == 1
MaxBookings == 1
MaxPrice == 2
MaxBalance == 250010
MaxStray == 1

\* ----------------------------------------------------------------- state
VARIABLES
  admin,            \* UserWallet.admin
  userBalances,     \* UserWallet.userBalances
  walletBalance,    \* address(UserWallet).balance
  stations,         \* ChargingStation.stations (ids written so far)
  stationCount,     \* ChargingStation.stationCount
  bookings,         \* ChargingBooking.bookings (ids written so far)
  userBookings,     \* ChargingBooking.userBookings
  ownerEarnings,    \* ChargingBooking.ownerEarnings
  bookingCount,     \* ChargingBooking.bookingCount
  bookingBalance,   \* address(ChargingBooking).balance
  deviceLog,        \* device-instruction events emitted by committed calls
  totals            \* history: sums of the values deposited, withdrawn, charged for
                    \* execution and credited by direct creditUserRefund calls

vars == <<admin, userBalances, walletBalance, stations, stationCount,
          bookings, userBookings, ownerEarnings, bookingCount,
          bookingBalance, deviceLog, totals>>

\* The storage and native balances of the three contracts as one value.
Cur ==
  [admin |-> admin, userBalances |-> userBalances,
   walletBalance |-> walletBalance, stations |-> stations,
   stationCount |-> stationCount, bookings |-> bookings,
   userBookings |-> userBookings, ownerEarnings |-> ownerEarnings,
   bookingCount |-> bookingCount, bookingBalance |-> bookingBalance]

\* An unset mapping slot reads as the zero value of its type.
ZeroStation ==
  [stationUniqueId |-> "", stationURL |-> "", pricePerWatt |-> 0, power |-> 0,
   owner |-> NullAddr, exists |-> FALSE, physicalAddress |-> "",
   latitude |-> 0, longitude |-> 0]

ZeroBooking ==
  [user |-> NullAddr, stationId |-> 0, watt |-> 0, power |-> 0,
   pricePaid |-> 0, timestamp |-> 0, exists |-> FALSE, status |-> ACTIVE,
   wattsConsumed |-> 0, refundAmount |-> 0]

StationAt(S, id) ==
  IF id \in DOMAIN S.stations THEN S.stations[id] ELSE ZeroStation

BookingAt(S, id) ==
  IF id \in DOMAIN S.bookings THEN S.bookings[id] ELSE ZeroBooking

BalanceOf(S, a) ==
  IF a \in DOMAIN S.userBalances THEN S.userBalances[a] ELSE 0

EarningsOf(S, a) ==
  IF a \in DOMAIN S.ownerEarnings THEN S.ownerEarnings[a] ELSE 0

\* The sum of all recorded user balances.
RECURSIVE SumOver(_, _)
SumOver(f, keys) ==
  IF keys = {} THEN 0
  ELSE LET k == CHOOSE x \in keys : TRUE IN f[k] + SumOver(f, keys \ {k})

SumBalances(S) == SumOver(S.userBalances, DOMAIN S.userBalances)

\* --------------------------------------------------------------- results
\* st: the state the call leaves; ret: the returned value; events: the device
\* descriptors emitted; out: the value paid to externally owned accounts.
Revert(S, msg) ==
  [ok |-> FALSE, err |-> msg, st |-> S, ret |-> 0, events |-> <<>>, out |-> <<>>]

Return(S, ret, events) ==
  [ok |-> TRUE, err |-> "", st |-> S, ret |-> ret, events |-> events, out |-> <<>>]

Payment(to, amount) == [to |-> to, amount |-> amount]

\* --------------------------------------------------------------- ChargingStation
\* registerStation refusing the latitudes and longitudes on the bounds.
registerStation_ExclusiveBounds(S, sender, stationUniqueId, stationURL, pricePerWatt, power, physicalAddress, latitude, longitude) ==
  IF stationUniqueId = "" THEN Revert(S, "Station ID cannot be empty")
  ELSE IF ~(pricePerWatt > 0) THEN Revert(S, "Price per watt must be greater than 0")
  ELSE IF ~(power > 0) THEN Revert(S, "Power must be greater than 0")
  ELSE IF physicalAddress = "" THEN Revert(S, "Physical address cannot be empty")
  ELSE IF ~(latitude > -MaxLatitude /\ latitude < MaxLatitude)
    THEN Revert(S, "Invalid latitude")
  ELSE IF ~(longitude > -MaxLongitude /\ longitude < MaxLongitude)
    THEN Revert(S, "Invalid longitude")
  ELSE
    LET rec == [stationUniqueId |-> stationUniqueId, stationURL |-> stationURL,
                pricePerWatt |-> pricePerWatt, power |-> power,
                owner |-> sender, exists |-> TRUE,
                physicalAddress |-> physicalAddress,
                latitude |-> latitude, longitude |-> longitude]
    IN Return([S EXCEPT !.stations = (S.stationCount :> rec) @@ S.stations,
                        !.stationCount = S.stationCount + 1],
              S.stationCount, <<>>)

registerStation(S, sender, stationUniqueId, stationURL, pricePerWatt, power, physicalAddress, latitude, longitude) ==
  IF stationUniqueId = "" THEN Revert(S, "Station ID cannot be empty")
  ELSE IF ~(pricePerWatt > 0) THEN Revert(S, "Price per watt must be greater than 0")
  ELSE IF ~(power > 0) THEN Revert(S, "Power must be greater than 0")
  ELSE IF physicalAddress = "" THEN Revert(S, "Physical address cannot be empty")
  ELSE IF ~(latitude >= -MaxLatitude /\ latitude <= MaxLatitude)
    THEN Revert(S, "Invalid latitude")
  ELSE IF ~(longitude >= -MaxLongitude /\ longitude <= MaxLongitude)
    THEN Revert(S, "Invalid longitude")
  ELSE
    LET rec == [stationUniqueId |-> stationUniqueId, stationURL |-> stationURL,
                pricePerWatt |-> pricePerWatt, power |-> power,
                owner |-> sender, exists |-> TRUE,
                physicalAddress |-> physicalAddress,
                latitude |-> latitude, longitude |-> longitude]
    IN Return([S EXCEPT !.stations = (S.stationCount :> rec) @@ S.stations,
                        !.stationCount = S.stationCount + 1],
              S.stationCount, <<>>)

\* onlyStationOwner letting every caller through.
onlyStationOwner_Anyone(S, sender, stationId) == TRUE

\* modifier onlyStationOwner
onlyStationOwner(S, sender, stationId) ==
  StationAt(S, stationId).owner = sender \/ sender = WalletAddr

\* The price lowered in proportion when the power decreases.
PriceAfterPowerUpdate_AlsoLowered(oldPrice, oldPower, newPower) ==
  IF newPower > oldPower
    THEN LET powerIncrease == ((newPower - oldPower) * 100) \div oldPower
             priceIncrease == (oldPrice * powerIncrease) \div 100
         IN oldPrice + priceIncrease
    ELSE LET powerDecrease == ((oldPower - newPower) * 100) \div oldPower
         IN oldPrice - (oldPrice * powerDecrease) \div 100

\* The price after a power change.
PriceAfterPowerUpdate(oldPrice, oldPower, newPower) ==
  IF newPower > oldPower
    THEN LET powerIncrease == ((newPower - oldPower) * 100) \div oldPower
             priceIncrease == (oldPrice * powerIncrease) \div 100
         IN oldPrice + priceIncrease
    ELSE oldPrice

updatePower(S, sender, stationId, newPower) ==
  IF ~onlyStationOwner(S, sender, stationId)
    THEN Revert(S, "Only station owner or UserWallet can execute this function")
  ELSE IF ~StationAt(S, stationId).exists
    THEN Revert(S, "Charging station does not exist")
  ELSE IF ~(newPower > 0) THEN Revert(S, "Power must be greater than 0")
  ELSE
    LET station == S.stations[stationId]
        newPrice == PriceAfterPowerUpdate(station.pricePerWatt, station.power, newPower)
    IN Return([S EXCEPT !.stations[stationId].pricePerWatt = newPrice,
                        !.stations[stationId].power = newPower],
              0, <<>>)

\* updatePrice recording its caller as the station's owner.
updatePrice_RecordsCaller(S, sender, stationId, newPricePerWatt) ==
  IF ~onlyStationOwner(S, sender, stationId)
    THEN Revert(S, "Only station owner or UserWallet can execute this function")
  ELSE IF ~StationAt(S, stationId).exists
    THEN Revert(S, "Charging station does not exist")
  ELSE IF ~(newPricePerWatt > 0)
    THEN Revert(S, "Price per watt must be greater than 0")
  ELSE Return([S EXCEPT !.stations[stationId].pricePerWatt = newPricePerWatt,
                        !.stations[stationId].owner = sender],
              0, <<>>)

updatePrice(S, sender, stationId, newPricePerWatt) ==
  IF ~onlyStationOwner(S, sender, stationId)
    THEN Revert(S, "Only station owner or UserWallet can execute this function")
  ELSE IF ~StationAt(S, stationId).exists
    THEN Revert(S, "Charging station does not exist")
  ELSE IF ~(newPricePerWatt > 0)
    THEN Revert(S, "Price per watt must be greater than 0")
  ELSE Return([S EXCEPT !.stations[stationId].pricePerWatt = newPricePerWatt],
              0, <<>>)

\* ------------------------------------------------------------ native value
\* address(a).balance for the two contracts that can hold value; the
\* balances of externally owned accounts are outside the engine.
NativeOf(S, a) ==
  IF a = WalletAddr THEN S.walletBalance
  ELSE IF a = BookingAddr THEN S.bookingBalance
  ELSE 0

CreditNative(S, a, v) ==
  IF a = WalletAddr THEN [S EXCEPT !.walletBalance = @ + v]
  ELSE IF a = BookingAddr THEN [S EXCEPT !.bookingBalance = @ + v]
  ELSE S

DebitNative(S, a, v) ==
  IF a = WalletAddr THEN [S EXCEPT !.walletBalance = @ - v]
  ELSE IF a = BookingAddr THEN [S EXCEPT !.bookingBalance = @ - v]
  ELSE S

\* --------------------------------------------------- UserWallet, leaf calls
\* msg.value has left the sender when the body runs; the callee holds it.
deposit(S, sender, value) ==
  LET S1 == CreditNative(S, WalletAddr, value) IN
  IF ~(value > 0) THEN Revert(S, "Deposit amount must be greater than 0")
  ELSE Return([S1 EXCEPT !.userBalances[sender] = @ + value], 0, <<>>)

\* receive() crediting the sender's balance.
receive_CreditsSender(S, sender, value) ==
  Return([CreditNative(S, WalletAddr, value) EXCEPT !.userBalances[sender] = @ + value], 0, <<>>)

\* receive(): a bare value transfer credits nobody.
receive(S, sender, value) ==
  Return(CreditNative(S, WalletAddr, value), 0, <<>>)

creditUserRefund(S, sender, value, user) ==
  LET S1 == CreditNative(S, WalletAddr, value) IN
  IF ~(value > 0) THEN Revert(S, "Refund amount must be greater than 0")
  ELSE IF user = NullAddr THEN Revert(S, "Invalid user address")
  ELSE Return([S1 EXCEPT !.userBalances[user] = @ + value], 0, <<>>)

\* withdraw paying out without lowering the caller's balance.
withdraw_NotDebited(S, sender, amount) ==
  IF ~(BalanceOf(S, sender) >= amount) THEN Revert(S, "Insufficient balance")
  ELSE IF NativeOf(S, WalletAddr) < amount THEN Revert(S, "transfer failed")
  ELSE [Return(DebitNative(S, WalletAddr, amount), 0, <<>>)
          EXCEPT !.out = <<Payment(sender, amount)>>]

\* withdraw without its hasBalance modifier.
withdraw_NoHasBalance(S, sender, amount) ==
  LET S1 == [S EXCEPT !.userBalances[sender] = @ - amount] IN
  IF NativeOf(S1, WalletAddr) < amount THEN Revert(S, "transfer failed")
  ELSE [Return(DebitNative(S1, WalletAddr, amount), 0, <<>>)
          EXCEPT !.out = <<Payment(sender, amount)>>]

withdraw(S, sender, amount) ==
  IF ~(BalanceOf(S, sender) >= amount) THEN Revert(S, "Insufficient balance")
  ELSE
    LET S1 == [S EXCEPT !.userBalances[sender] = @ - amount] IN
    \* payable(msg.sender).transfer(amount)
    IF NativeOf(S1, WalletAddr) < amount THEN Revert(S, "transfer failed")
    ELSE [Return(DebitNative(S1, WalletAddr, amount), 0, <<>>)
            EXCEPT !.out = <<Payment(sender, amount)>>]

\* changeAdmin without its onlyAdmin modifier.
changeAdmin_NoOnlyAdmin(S, sender, newAdmin) ==
  IF newAdmin = NullAddr THEN Revert(S, "New admin cannot be zero address")
  ELSE Return([S EXCEPT !.admin = newAdmin], 0, <<>>)

changeAdmin(S, sender, newAdmin) ==
  IF sender # S.admin THEN Revert(S, "Only admin can execute this function")
  ELSE IF newAdmin = NullAddr THEN Revert(S, "New admin cannot be zero address")
  ELSE Return([S EXCEPT !.admin = newAdmin], 0, <<>>)

\* -------------------------------------------------------------- _uint2str
Digit(d) == CASE d = 0 -> "0" [] d = 1 -> "1" [] d = 2 -> "2" [] d = 3 -> "3"
              [] d = 4 -> "4" [] d = 5 -> "5" [] d = 6 -> "6" [] d = 7 -> "7"
              [] d = 8 -> "8" [] d = 9 -> "9"

RECURSIVE DigitsOf(_)
DigitsOf(i) ==
  IF i = 0 THEN "" ELSE DigitsOf(i \div 10) \o Digit(i - (i \div 10) * 10)

\* _uint2str writing a zero before the digits.
uint2str_LeadingZero(i) == "0" \o DigitsOf(i)

uint2str(i) == IF i = 0 THEN "0" ELSE DigitsOf(i)

\* -------------------------------------------------------- ChargingBooking
\* The quotient rounded up instead of down.
ScaledDown_RoundedUp(a, b) ==
  (a * b + SCALE_FACTOR * SCALE_FACTOR - 1) \div (SCALE_FACTOR * SCALE_FACTOR)

\* (a * b) / (SCALE_FACTOR * SCALE_FACTOR) of the source's uint256
\* arithmetic: the product does not wrap there, so the quotient is taken in
\* parts, each of which stays small: with b = q * 10^6 + r, a = a1 * 10^3 + a0
\* and r = r1 * 10^3 + r0 the quotient is
\*   a * q + a1 * r1 + (a1 * r0 + a0 * r1 + (a0 * r0) / 10^3) / 10^3.
ScaledDown(a, b) ==
  LET q == b \div (SCALE_FACTOR * SCALE_FACTOR)
      r == b % (SCALE_FACTOR * SCALE_FACTOR)
      a1 == a \div SCALE_FACTOR
      a0 == a % SCALE_FACTOR
      r1 == r \div SCALE_FACTOR
      r0 == r % SCALE_FACTOR
  IN a * q + a1 * r1 + (a1 * r0 + a0 * r1 + (a0 * r0) \div SCALE_FACTOR) \div SCALE_FACTOR

\* calculatePrice without the require on the station's capacity.
calculatePrice_NoCapacityCheck(S, stationId, watt, power) ==
  IF ~StationAt(S, stationId).exists
    THEN Revert(S, "Charging station does not exist")
  ELSE IF ~(watt > 0 /\ power > 0)
    THEN Revert(S, "Watt and power must be greater than 0")
  ELSE Return(S, ScaledDown(watt * power, S.stations[stationId].pricePerWatt), <<>>)

\* calculatePrice without the division by SCALE_FACTOR * SCALE_FACTOR.
calculatePrice_Unscaled(S, stationId, watt, power) ==
  IF ~StationAt(S, stationId).exists
    THEN Revert(S, "Charging station does not exist")
  ELSE
    LET pricePerWatt == S.stations[stationId].pricePerWatt
        stationPower == S.stations[stationId].power
    IN IF ~(power <= stationPower * SCALE_FACTOR)
         THEN Revert(S, "Requested power exceeds station capacity")
       ELSE IF ~(watt > 0 /\ power > 0)
         THEN Revert(S, "Watt and power must be greater than 0")
       ELSE Return(S, watt * power * pricePerWatt, <<>>)

\* getStationPrice, with its stationExists modifier.
getStationPrice(S, stationId) ==
  IF ~StationAt(S, stationId).exists
    THEN Revert(S, "Charging station does not exist")
  ELSE Return(S, S.stations[stationId].pricePerWatt, <<>>)

calculatePrice(S, stationId, watt, power) ==
  \* getStationPrice / getStationPower carry stationExists
  IF ~StationAt(S, stationId).exists
    THEN Revert(S, "Charging station does not exist")
  ELSE
    LET pricePerWatt == S.stations[stationId].pricePerWatt
        stationPower == S.stations[stationId].power
    IN IF ~(power <= stationPower * SCALE_FACTOR)
         THEN Revert(S, "Requested power exceeds station capacity")
       ELSE IF ~(watt > 0 /\ power > 0)
         THEN Revert(S, "Watt and power must be greater than 0")
       ELSE Return(S, ScaledDown(watt * power, pricePerWatt), <<>>)

\* A booking recorded without the price paid.
NewBooking_Unpaid(user, stationId, watt, power, pricePaid, timestamp) ==
  [user |-> user, stationId |-> stationId, watt |-> watt, power |-> power,
   pricePaid |-> 0, timestamp |-> timestamp, exists |-> TRUE,
   status |-> ACTIVE, wattsConsumed |-> 0, refundAmount |-> 0]

NewBooking(user, stationId, watt, power, pricePaid, timestamp) ==
  [user |-> user, stationId |-> stationId, watt |-> watt, power |-> power,
   pricePaid |-> pricePaid, timestamp |-> timestamp, exists |-> TRUE,
   status |-> ACTIVE, wattsConsumed |-> 0, refundAmount |-> 0]

\* bookings[bookingCount] = ...; userBookings[user].push(bookingCount)
StoreBooking(S, rec) ==
  [S EXCEPT !.bookings = (S.bookingCount :> rec) @@ S.bookings,
            !.userBookings =
               (rec.user :> Append(IF rec.user \in DOMAIN S.userBookings
                                     THEN S.userBookings[rec.user] ELSE <<>>,
                                   S.bookingCount)) @@ S.userBookings]

\* prebookCharging without its onlyUserWallet modifier.
prebookCharging_NoOnlyUserWallet(S, sender, value, user, stationId, watt, power, timestamp) ==
  IF value > 0 THEN Revert(S, "non-payable function called with value")
  ELSE
    LET S1 == StoreBooking(S, NewBooking(user, stationId, watt, power, 0, timestamp))
    IN Return([S1 EXCEPT !.bookingCount = @ + 1], S.bookingCount, <<>>)

\* prebookCharging returning the booking count after the increment.
prebookCharging_ReturnsCount(S, sender, value, user, stationId, watt, power, timestamp) ==
  IF value > 0 THEN Revert(S, "non-payable function called with value")
  ELSE IF sender # WalletAddr
    THEN Revert(S, "Only UserWallet contract can execute this function")
  ELSE
    LET S1 == StoreBooking(S, NewBooking(user, stationId, watt, power, 0, timestamp))
    IN Return([S1 EXCEPT !.bookingCount = @ + 1], S.bookingCount + 1, <<>>)

prebookCharging(S, sender, value, user, stationId, watt, power, timestamp) ==
  IF value > 0 THEN Revert(S, "non-payable function called with value")
  ELSE IF sender # WalletAddr
    THEN Revert(S, "Only UserWallet contract can execute this function")
  ELSE
    LET S1 == StoreBooking(S, NewBooking(user, stationId, watt, power, 0, timestamp))
    IN Return([S1 EXCEPT !.bookingCount = @ + 1], S.bookingCount, <<>>)

DeviceControlTriggered(bookingId, stationId, user, deviceURL, watt, power) ==
  [event |-> "DeviceControlTriggered", bookingId |-> bookingId,
   stationId |-> stationId, user |-> user, deviceURL |-> deviceURL,
   a |-> watt, b |-> power,
   httpEndpoint |-> "/toggle/" \o uint2str(watt) \o "/" \o uint2str(power)]

EmergencyStopTriggered(bookingId, stationId, user, deviceURL, wattsConsumed, refundAmount) ==
  [event |-> "EmergencyStopTriggered", bookingId |-> bookingId,
   stationId |-> stationId, user |-> user, deviceURL |-> deviceURL,
   a |-> wattsConsumed, b |-> refundAmount, httpEndpoint |-> "/stop"]

\* buyPower keeping the excess payment.
RefundExcess_Kept(S, user, excessAmount) == Return(S, 0, <<>>)

\* The refund of the excess payment at the end of buyPower (lines 209-216).
RefundExcess(S, user, excessAmount) ==
  IF excessAmount > 0
    THEN creditUserRefund(DebitNative(S, BookingAddr, excessAmount),
                          BookingAddr, excessAmount, user)
    ELSE Return(S, 0, <<>>)

buyPower(S, sender, value, user, stationId, watt, power, timestamp) ==
  LET S1 == CreditNative(S, BookingAddr, value)
      price == calculatePrice(S1, stationId, watt, power)
  IN
  IF sender # WalletAddr
    THEN Revert(S, "Only UserWallet contract can execute this function")
  ELSE IF ~price.ok THEN Revert(S, price.err)
  ELSE IF ~(value >= price.ret) THEN Revert(S, "Insufficient payment")
  ELSE
    LET totalCost == price.ret
        S2 == StoreBooking(S1, NewBooking(user, stationId, watt, power, totalCost, timestamp))
        stationOwner == S2.stations[stationId].owner
        S3 == [S2 EXCEPT !.ownerEarnings[stationOwner] = @ + totalCost]
        ev == DeviceControlTriggered(S3.bookingCount, stationId, user,
                                     S3.stations[stationId].stationURL, watt, power)
        refund == RefundExcess(S3, user, value - totalCost)
    IN IF ~refund.ok THEN Revert(S, "Failed to refund excess payment to user")
       ELSE Return([refund.st EXCEPT !.bookingCount = @ + 1], S.bookingCount, <<ev>>)

\* The refund computed from the consumed instead of the unused watts.
RefundFor_ForConsumed(booking, wattsConsumed, pricePerWatt) ==
  LET refundAmount == (wattsConsumed * booking.power * pricePerWatt) \div (SCALE_FACTOR * SCALE_FACTOR)
  IN IF refundAmount > booking.pricePaid THEN booking.pricePaid ELSE refundAmount

\* The refund without the cap at pricePaid.
RefundFor_Uncapped(booking, wattsConsumed, pricePerWatt) ==
  ((booking.watt - wattsConsumed) * booking.power * pricePerWatt) \div (SCALE_FACTOR * SCALE_FACTOR)

\* refundAmount of emergencyStop (lines 238-245).
RefundFor(booking, wattsConsumed, pricePerWatt) ==
  LET unusedWatts == booking.watt - wattsConsumed
      refundAmount == ScaledDown(unusedWatts * booking.power, pricePerWatt)
  IN IF refundAmount > booking.pricePaid THEN booking.pricePaid ELSE refundAmount

\* The transfer of the refund in emergencyStop (lines 258-265).
SendRefund(S, user, refundAmount) ==
  IF refundAmount > 0
    THEN IF ~(NativeOf(S, BookingAddr) >= refundAmount)
           THEN Revert(S, "Insufficient contract balance for refund")
         ELSE LET r == creditUserRefund(DebitNative(S, BookingAddr, refundAmount),
                                        BookingAddr, refundAmount, user)
              IN IF r.ok THEN r ELSE Revert(S, "Failed to refund to user")
    ELSE Return(S, 0, <<>>)

\* The requires without the one on the status.
StopRequires_NoActiveCheck(S, user, bookingId, wattsConsumed) ==
  LET booking == BookingAt(S, bookingId) IN
  IF ~booking.exists THEN "Booking does not exist"
  ELSE IF booking.user # user THEN "Only booking owner can emergency stop"
  ELSE IF ~(booking.pricePaid > 0) THEN "Cannot emergency stop prebookings"
  ELSE IF ~(wattsConsumed <= booking.watt) THEN "Consumed watts cannot exceed booked watts"
  ELSE ""

\* The requires without the one on pricePaid.
StopRequires_NoPaidCheck(S, user, bookingId, wattsConsumed) ==
  LET booking == BookingAt(S, bookingId) IN
  IF ~booking.exists THEN "Booking does not exist"
  ELSE IF booking.user # user THEN "Only booking owner can emergency stop"
  ELSE IF booking.status # ACTIVE THEN "Booking is not active"
  ELSE IF ~(wattsConsumed <= booking.watt) THEN "Consumed watts cannot exceed booked watts"
  ELSE ""

\* The requires on the booking at the head of emergencyStop (lines 229-233):
\* the message of the first one that fails, "" when all pass.
StopRequires(S, user, bookingId, wattsConsumed) ==
  LET booking == BookingAt(S, bookingId) IN
  IF ~booking.exists THEN "Booking does not exist"
  ELSE IF booking.user # user THEN "Only booking owner can emergency stop"
  ELSE IF booking.status # ACTIVE THEN "Booking is not active"
  ELSE IF ~(booking.pricePaid > 0) THEN "Cannot emergency stop prebookings"
  ELSE IF ~(wattsConsumed <= booking.watt) THEN "Consumed watts cannot exceed booked watts"
  ELSE ""

\* The earnings taken down to zero when they do not cover the refund.
DebitOwnerEarnings_Clamped(S, stationOwner, refundAmount) ==
  IF ~(EarningsOf(S, stationOwner) >= refundAmount)
    THEN Return([S EXCEPT !.ownerEarnings[stationOwner] = 0], 0, <<>>)
    ELSE Return([S EXCEPT !.ownerEarnings[stationOwner] = @ - refundAmount], 0, <<>>)

\* Reduce owner earnings by refund amount (lines 253-255).
DebitOwnerEarnings(S, stationOwner, refundAmount) ==
  IF ~(EarningsOf(S, stationOwner) >= refundAmount)
    THEN Revert(S, "Insufficient owner earnings for refund")
    ELSE Return([S EXCEPT !.ownerEarnings[stationOwner] = @ - refundAmount], 0, <<>>)

emergencyStop(S, sender, value, user, bookingId, wattsConsumed) ==
  LET booking == BookingAt(S, bookingId)
      failed == StopRequires(S, user, bookingId, wattsConsumed)
  IN
  IF value > 0 THEN Revert(S, "non-payable function called with value")
  ELSE IF sender # WalletAddr
    THEN Revert(S, "Only UserWallet contract can execute this function")
  ELSE IF failed # "" THEN Revert(S, failed)
  ELSE IF ~StationAt(S, booking.stationId).exists
    THEN Revert(S, "Charging station does not exist")
  ELSE
    LET station == S.stations[booking.stationId]
        refundAmount == RefundFor(booking, wattsConsumed, station.pricePerWatt)
        S1 == [S EXCEPT !.bookings[bookingId].status = STOPPED,
                        !.bookings[bookingId].wattsConsumed = wattsConsumed,
                        !.bookings[bookingId].refundAmount = refundAmount]
        debited == DebitOwnerEarnings(S1, station.owner, refundAmount)
    IN IF ~debited.ok THEN Revert(S, debited.err)
       ELSE
         LET sent == SendRefund(debited.st, user, refundAmount)
             ev == EmergencyStopTriggered(bookingId, booking.stationId, user,
                                          station.stationURL, wattsConsumed, refundAmount)
         IN IF ~sent.ok THEN Revert(S, sent.err)
            ELSE Return(sent.st, refundAmount, <<ev>>)

\* withdrawEarnings leaving the caller's earnings as they were.
withdrawEarnings_NotZeroed(S, sender, value) ==
  LET earnings == EarningsOf(S, sender) IN
  IF value > 0 THEN Revert(S, "non-payable function called with value")
  ELSE IF ~(earnings > 0) THEN Revert(S, "No earnings to withdraw")
  ELSE IF ~(NativeOf(S, BookingAddr) >= earnings)
    THEN Revert(S, "Insufficient contract balance")
  ELSE
    LET S2 == CreditNative(DebitNative(S, BookingAddr, earnings), sender, earnings)
    IN [Return(S2, 0, <<>>) EXCEPT !.out = <<Payment(sender, earnings)>>]

withdrawEarnings(S, sender, value) ==
  LET earnings == EarningsOf(S, sender) IN
  IF value > 0 THEN Revert(S, "non-payable function called with value")
  ELSE IF ~(earnings > 0) THEN Revert(S, "No earnings to withdraw")
  ELSE IF ~(NativeOf(S, BookingAddr) >= earnings)
    THEN Revert(S, "Insufficient contract balance")
  ELSE
    LET S1 == [S EXCEPT !.ownerEarnings[sender] = 0]
        \* payable(msg.sender).transfer(earnings); UserWallet takes it in receive()
        S2 == CreditNative(DebitNative(S1, BookingAddr, earnings), sender, earnings)
    IN [Return(S2, 0, <<>>) EXCEPT !.out = <<Payment(sender, earnings)>>]

\* The loop of both getters: the ids i < bookingCount, in increasing order,
\* whose booking exists, is for the station, and is paid (pricePaid > 0) or
\* not (pricePaid == 0).
RECURSIVE StationBookingIds(_, _, _, _)
StationBookingIds(S, stationId, paid, i) ==
  IF i >= S.bookingCount THEN <<>>
  ELSE
    LET b == BookingAt(S, i)
        rest == StationBookingIds(S, stationId, paid, i + 1)
    IN IF b.exists /\ b.stationId = stationId /\ ((b.pricePaid > 0) = paid)
         THEN <<i>> \o rest
       ELSE rest

getStationBookings(S, stationId) ==
  LET ids == StationBookingIds(S, stationId, TRUE, 0)
  IN [users |-> [k \in 1..Len(ids) |-> BookingAt(S, ids[k]).user],
      amountsPaid |-> [k \in 1..Len(ids) |-> BookingAt(S, ids[k]).pricePaid],
      bookingIds |-> ids]

getStationPrebookings(S, stationId) ==
  LET ids == StationBookingIds(S, stationId, FALSE, 0)
  IN [users |-> [k \in 1..Len(ids) |-> BookingAt(S, ids[k]).user],
      watts |-> [k \in 1..Len(ids) |-> BookingAt(S, ids[k]).watt],
      powers |-> [k \in 1..Len(ids) |-> BookingAt(S, ids[k]).power],
      bookingIds |-> ids,
      timestamps |-> [k \in 1..Len(ids) |-> BookingAt(S, ids[k]).timestamp]]

getUserBookings(S, user) ==
  Return(S, IF user \in DOMAIN S.userBookings THEN S.userBookings[user] ELSE <<>>, <<>>)

getBookingCount(S) == Return(S, S.bookingCount, <<>>)

revertFunction(S) == Revert(S, "This function always reverts")

\* ------------------------------------------------- calls made by UserWallet
\* The payload of executeTransaction: the function selected and its arguments
\* (id: stationId or bookingId; a: watt, wattsConsumed, newPower or
\* newPricePerWatt; b: power).  fn = "" is empty calldata.
Payload(fn, user, id, a, b) == [fn |-> fn, user |-> user, id |-> id, a |-> a, b |-> b]

EmptyData == Payload("", NullAddr, 0, 0, 0)

\* ChargingBooking reached with `data` and `value` from `sender`.
CallBooking(S, sender, value, data, timestamp) ==
  CASE data.fn = "buyPower" ->
         buyPower(S, sender, value, data.user, data.id, data.a, data.b, timestamp)
    [] data.fn = "prebookCharging" ->
         prebookCharging(S, sender, value, data.user, data.id, data.a, data.b, timestamp)
    [] data.fn = "emergencyStop" ->
         emergencyStop(S, sender, value, data.user, data.id, data.a)
    [] data.fn = "withdrawEarnings" -> withdrawEarnings(S, sender, value)
    [] data.fn = "revertFunction" -> revertFunction(S)
    [] OTHER -> Revert(S, "no such function")

\* ChargingStation reached with `data` and `value` from `sender`; none of its
\* functions is payable.
CallStation(S, sender, value, data) ==
  IF value > 0 THEN Revert(S, "non-payable function called with value")
  ELSE CASE data.fn = "updatePower" -> updatePower(S, sender, data.id, data.a)
         [] data.fn = "updatePrice" -> updatePrice(S, sender, data.id, data.a)
         [] OTHER -> Revert(S, "no such function")

\* target.call{gas: 250000, value: amount}(data) made by UserWallet: the
\* value leaves UserWallet and the callee runs; a failed call undoes both.
TargetCall(S, target, amount, data, timestamp) ==
  IF NativeOf(S, WalletAddr) < amount THEN Revert(S, "insufficient value")
  ELSE
    LET S0 == DebitNative(S, WalletAddr, amount)
        r == IF target = BookingAddr THEN CallBooking(S0, WalletAddr, amount, data, timestamp)
             ELSE IF target = StationAddr THEN CallStation(S0, WalletAddr, amount, data)
             ELSE [Return(S0, 0, <<>>) EXCEPT !.out = <<Payment(target, amount)>>]
    IN IF r.ok THEN r ELSE Revert(S, r.err)

\* The metered cost charged whatever the estimate.
GasCostToCharge_Metered(gasUsed, gasPrice) == gasUsed * gasPrice

\* gasCostToCharge (lines 52, 65-66); gasUsed is gasStart - gasleft().
GasCostToCharge(gasUsed, gasPrice) ==
  LET estimatedGasCost == GasEstimateUnits * gasPrice
      actualGasCost == gasUsed * gasPrice
  IN IF actualGasCost < estimatedGasCost THEN actualGasCost ELSE estimatedGasCost

\* executeTransaction debiting the execution cost but not the amount sent.
SettleExecution_CostOnlyDebit(S, user, amount, call, gasUsed, gasPrice) ==
  LET gasCostToCharge == GasCostToCharge(gasUsed, gasPrice)
      S1 == call.st
  IN
  IF ~call.ok THEN Revert(S, "Transaction execution failed")
  ELSE IF BalanceOf(S1, user) < gasCostToCharge
    THEN Revert(S, "arithmetic underflow")
  ELSE
    LET S2 == [S1 EXCEPT !.userBalances[user] = @ - gasCostToCharge] IN
    IF gasCostToCharge > 0
      THEN IF NativeOf(S2, WalletAddr) < gasCostToCharge
             THEN Revert(S, "transfer failed")
           ELSE [ok |-> TRUE, err |-> "",
                 st |-> DebitNative(S2, WalletAddr, gasCostToCharge),
                 ret |-> call.ret, events |-> call.events,
                 out |-> call.out \o <<Payment(S2.admin, gasCostToCharge)>>]
      ELSE [ok |-> TRUE, err |-> "", st |-> S2, ret |-> call.ret,
            events |-> call.events, out |-> call.out]

\* executeTransaction without require(success, ...).
SettleExecution_NoRequireSuccess(S, user, amount, call, gasUsed, gasPrice) ==
  LET gasCostToCharge == GasCostToCharge(gasUsed, gasPrice)
      S1 == call.st
  IN
  IF BalanceOf(S1, user) < amount + gasCostToCharge
    THEN Revert(S, "arithmetic underflow")
  ELSE
    LET S2 == [S1 EXCEPT !.userBalances[user] = @ - (amount + gasCostToCharge)] IN
    IF gasCostToCharge > 0
      THEN IF NativeOf(S2, WalletAddr) < gasCostToCharge
             THEN Revert(S, "transfer failed")
           ELSE [ok |-> TRUE, err |-> "",
                 st |-> DebitNative(S2, WalletAddr, gasCostToCharge),
                 ret |-> call.ret, events |-> call.events,
                 out |-> call.out \o <<Payment(S2.admin, gasCostToCharge)>>]
      ELSE [ok |-> TRUE, err |-> "", st |-> S2, ret |-> call.ret,
            events |-> call.events, out |-> call.out]

\* The part of executeTransaction after the target call returned `call`
\* (lines 62-75).
SettleExecution(S, user, amount, call, gasUsed, gasPrice) ==
  LET gasCostToCharge == GasCostToCharge(gasUsed, gasPrice)
      S1 == call.st
  IN
  IF ~call.ok THEN Revert(S, "Transaction execution failed")
  ELSE IF BalanceOf(S1, user) < amount + gasCostToCharge
    THEN Revert(S, "arithmetic underflow")
  ELSE
    LET S2 == [S1 EXCEPT !.userBalances[user] = @ - (amount + gasCostToCharge)] IN
    IF gasCostToCharge > 0
      THEN IF NativeOf(S2, WalletAddr) < gasCostToCharge
             THEN Revert(S, "transfer failed")
           ELSE [ok |-> TRUE, err |-> "",
                 st |-> DebitNative(S2, WalletAddr, gasCostToCharge),
                 ret |-> call.ret, events |-> call.events,
                 out |-> call.out \o <<Payment(S2.admin, gasCostToCharge)>>]
      ELSE [ok |-> TRUE, err |-> "", st |-> S2, ret |-> call.ret,
            events |-> call.events, out |-> call.out]

\* What executeTransaction adds to a result: whether the target was invoked,
\* how that ended, and the execution cost charged.
Traced(r, called, call, charged) ==
  [ok |-> r.ok, err |-> r.err, st |-> r.st, ret |-> r.ret, events |-> r.events,
   out |-> r.out, called |-> called, callOk |-> called /\ call.ok,
   callErr |-> IF called THEN call.err ELSE "", charged |-> charged]

\* executeTransaction without the require on amount + estimatedGasCost.
executeTransaction_NoEstimateCheck(S, sender, user, target, amount, data, gasUsed, gasPrice, timestamp) ==
  LET none == Revert(S, "")
  IN
  IF sender # S.admin
    THEN Traced(Revert(S, "Only admin can execute this function"), FALSE, none, 0)
  ELSE IF ~(BalanceOf(S, user) >= amount)
    THEN Traced(Revert(S, "Insufficient balance"), FALSE, none, 0)
  ELSE
    LET call == TargetCall(S, target, amount, data, timestamp)
        r == SettleExecution(S, user, amount, call, gasUsed, gasPrice)
    IN Traced(r, TRUE, call,
              IF r.ok THEN GasCostToCharge(gasUsed, gasPrice) ELSE 0)

executeTransaction(S, sender, user, target, amount, data, gasUsed, gasPrice, timestamp) ==
  LET estimatedGasCost == GasEstimateUnits * gasPrice
      none == Revert(S, "")
  IN
  IF sender # S.admin
    THEN Traced(Revert(S, "Only admin can execute this function"), FALSE, none, 0)
  ELSE IF ~(BalanceOf(S, user) >= amount)
    THEN Traced(Revert(S, "Insufficient balance"), FALSE, none, 0)
  ELSE IF ~(BalanceOf(S, user) >= amount + estimatedGasCost)
    THEN Traced(Revert(S, "Insufficient balance for tx + gas"), FALSE, none, 0)
  ELSE
    LET call == TargetCall(S, target, amount, data, timestamp)
        r == SettleExecution(S, user, amount, call, gasUsed, gasPrice)
    IN Traced(r, TRUE, call,
              IF r.ok THEN GasCostToCharge(gasUsed, gasPrice) ELSE 0)

\* ----------------------------------------------------------------- inputs
Users == {"alice", "bob"}
StationOwners == {"op"}
AdminCandidates == {NullAddr, "op", "alice"}
DepositValues == {0, 250010}
BareValues == {0, 1}
StationIds == 0..MaxStations
BookingIds == 0..MaxBookings
NewPriceValues == {0, 1}
NewPowerValues == {0, 1, 2}
BlockTimes == {1}
\* <<gasStart - gasleft(), tx.gasprice>>: below and above the 250000 estimate
GasCases == {<<200000, 0>>, <<200000, 1>>, <<300000, 1>>}

\* registerStation's arguments: one valid station, and one argument wrong at a time.
StationArgs(uid, price, power, paddr, lat, lon) ==
  [uid |-> uid, url |-> "http://device", price |-> price, power |-> power,
   paddr |-> paddr, lat |-> lat, lon |-> lon]

RegisterCases ==
  {StationArgs("ST-1", 2, 1, "1 Main St", MaxLatitude, -MaxLongitude),
   StationArgs("", 2, 1, "1 Main St", MaxLatitude, -MaxLongitude),
   StationArgs("ST-1", 0, 1, "1 Main St", MaxLatitude, -MaxLongitude),
   StationArgs("ST-1", 2, 0, "1 Main St", MaxLatitude, -MaxLongitude),
   StationArgs("ST-1", 2, 1, "", MaxLatitude, -MaxLongitude),
   StationArgs("ST-1", 2, 1, "1 Main St", MaxLatitude + 1, -MaxLongitude),
   StationArgs("ST-1", 2, 1, "1 Main St", MaxLatitude, -MaxLongitude - 1)}

\* <<stationId, watt, power>> of the purchases tried: two rates at the first
\* station, no units, and a station that was never registered.
BuyShapes == {<<0, 1500, 1000>>, <<0, 1500, 2000>>, <<0, 0, 1000>>, <<MaxStations, 1500, 1000>>}

BuyPayloads ==
  {Payload("buyPower", u, x[1], x[2], x[3]) : u \in Users, x \in BuyShapes}

PrebookPayloads ==
  {Payload("prebookCharging", u, s, 1500, 1000) : u \in Users, s \in StationIds}

\* The consumption reported for a booking: none, part, all, and more than booked.
StopPayloads(S) ==
  {Payload("emergencyStop", u, b, c, 0) : u \in Users, b \in BookingIds, c \in {0, 400}}
    \cup {Payload("emergencyStop", u, b, BookingAt(S, b).watt + d, 0) : u \in Users, b \in BookingIds, d \in {0, 1}}

OtherBookingPayloads ==
  {Payload("withdrawEarnings", NullAddr, 0, 0, 0), Payload("revertFunction", NullAddr, 0, 0, 0), EmptyData}

StationPayloads ==
  {Payload("updatePrice", NullAddr, s, v, 0) : s \in StationIds, v \in NewPriceValues}
    \cup {Payload("updatePower", NullAddr, s, v, 0) : s \in StationIds, v \in NewPowerValues}

\* The amounts tried with a purchase: below, at and above the price.
BuyAmounts(S, data) ==
  LET price == calculatePrice(S, data.id, data.a, data.b)
  IN IF price.ok THEN {a \in {price.ret - 1, price.ret, price.ret + 1} : a >= 0} ELSE {1}

Request(user, target, amount, data) ==
  [user |-> user, target |-> target, amount |-> amount, data |-> data]

\* The executeTransaction calls the admin tries in state S: purchases and
\* stops for oneself, a purchase paid by the other user, value attached to a
\* call that takes none, proxy updates of the station, a failing target and
\* a plain transfer.
Requests(S) ==
  UNION {{Request(d.user, BookingAddr, a, d) : a \in BuyAmounts(S, d)} : d \in BuyPayloads}
    \cup {Request("bob", BookingAddr, a, Payload("buyPower", "alice", 0, 1500, 1000)) : a \in BuyAmounts(S, Payload("buyPower", "alice", 0, 1500, 1000))}
    \cup {Request(d.user, BookingAddr, 0, d) : d \in PrebookPayloads \cup StopPayloads(S)}
    \cup {Request("alice", BookingAddr, 1, Payload("emergencyStop", "alice", 0, 0, 0))}
    \cup {Request("alice", BookingAddr, 0, d) : d \in OtherBookingPayloads}
    \cup {Request("alice", StationAddr, 0, d) : d \in StationPayloads}
    \cup {Request("alice", "bob", a, EmptyData) : a \in {0, BalanceOf(S, "alice")}}

\* What an account that is not the admin tries.
ForeignRequests ==
  {Request("alice", BookingAddr, 0, Payload("prebookCharging", "alice", 0, 1500, 1000)),
   Request("bob", "bob", 0, EmptyData)}

\* What an account tries on ChargingBooking directly.
DirectPayloads ==
  {Payload("buyPower", "alice", 0, 1500, 1000),
   Payload("prebookCharging", "alice", 0, 1500, 1000),
   Payload("emergencyStop", "alice", 0, 0, 0)}

\* ---------------------------------------------------------------- actions
\* The bounds of the model, on the state a call would commit.
WithinBounds(S) ==
  /\ S.stationCount <= MaxStations
  /\ S.bookingCount <= MaxBookings
  /\ \A id \in DOMAIN S.stations : S.stations[id].pricePerWatt <= MaxPrice
  /\ SumBalances(S) <= MaxBalance
  /\ S.walletBalance - SumBalances(S) <= MaxStray

\* A top-level call ending as `r`: committed when r.ok; a reverted call
\* leaves nothing behind.
Apply(r) ==
  IF r.ok
    THEN /\ admin' = r.st.admin
         /\ userBalances' = r.st.userBalances
         /\ walletBalance' = r.st.walletBalance
         /\ stations' = r.st.stations
         /\ stationCount' = r.st.stationCount
         /\ bookings' = r.st.bookings
         /\ userBookings' = r.st.userBookings
         /\ ownerEarnings' = r.st.ownerEarnings
         /\ bookingCount' = r.st.bookingCount
         /\ bookingBalance' = r.st.bookingBalance
         /\ deviceLog' = deviceLog \o r.events
    ELSE UNCHANGED vars

Commit(r) == (r.ok => WithinBounds(r.st)) /\ Apply(r) /\ UNCHANGED totals

Init ==
  /\ admin = Deployer
  /\ userBalances = [a \in Addr |-> 0]
  /\ walletBalance = 0
  /\ stations = <<>>
  /\ stationCount = 0
  /\ bookings = <<>>
  /\ userBookings = [a \in Addr |-> <<>>]
  /\ ownerEarnings = [a \in Addr |-> 0]
  /\ bookingCount = 0
  /\ bookingBalance = 0
  /\ deviceLog = <<>>
  /\ totals = [deposited |-> 0, withdrawn |-> 0, charged |-> 0, credited |-> 0]

Deposit ==
  \E caller \in Users, value \in DepositValues :
    Commit(deposit(Cur, caller, value))

Withdraw ==
  \E caller \in Users :
    \E amount \in {userBalances[caller], userBalances[caller] + 1} :
      Commit(withdraw(Cur, caller, amount))

BareTransfer ==
  \E caller \in Users, value \in BareValues :
    Commit(receive(Cur, caller, value))

CreditUserRefund ==
  \E caller \in Users, user \in Users \cup {NullAddr}, value \in DepositValues :
    Commit(creditUserRefund(Cur, caller, value, user))

ChangeAdmin ==
  \E caller \in EOA, newAdmin \in AdminCandidates :
    Commit(changeAdmin(Cur, caller, newAdmin))

RegisterStation ==
  \E caller \in StationOwners, x \in RegisterCases :
    Commit(registerStation(Cur, caller, x.uid, x.url, x.price, x.power, x.paddr, x.lat, x.lon))

UpdatePower ==
  \E caller \in EOA, id \in StationIds, newPower \in NewPowerValues :
    Commit(updatePower(Cur, caller, id, newPower))

UpdatePrice ==
  \E caller \in EOA, id \in StationIds, newPrice \in NewPriceValues :
    Commit(updatePrice(Cur, caller, id, newPrice))

WithdrawEarnings ==
  \E caller \in EOA :
    Commit(withdrawEarnings(Cur, caller, 0))

\* prebookCharging, buyPower and emergencyStop called by an account directly.
DirectBookingCall ==
  \E caller \in EOA, data \in DirectPayloads, t \in BlockTimes :
    Commit(CallBooking(Cur, caller, 0, data, t))

ExecuteTransaction ==
  \E caller \in EOA, gas \in GasCases, t \in BlockTimes :
    \E q \in IF caller = admin THEN Requests(Cur) ELSE ForeignRequests :
      Commit(executeTransaction(Cur, caller, q.user, q.target, q.amount, q.data, gas[1], gas[2], t))

Next ==
  \/ Deposit
  \/ Withdraw
  \/ BareTransfer
  \/ CreditUserRefund
  \/ ChangeAdmin
  \/ RegisterStation
  \/ UpdatePower
  \/ UpdatePrice
  \/ WithdrawEarnings
  \/ DirectBookingCall
  \/ ExecuteTransaction

Spec == Init /\ [][Next]_vars

\* ------------------------------------------------------------ the market
\* Two stations of two owners and two bookings of one buyer, executed at a
\* gas price of zero: what is earned, refunded and withdrawn per owner.
MarketStations == 2
MarketBookings == 2
MarketBalance == 6

MarketOwners == {"op", "bob"}
MarketOwnerOf(stationId) == IF stationId = 0 THEN "op" ELSE "bob"
MarketPrices == {1, 2}
MarketConsumed == {0, 400, 1500}
MarketDepositValues == {0, 3}
MarketGas == <<200000, 0>>

\* A purchase at either station, and one of so little that its price floors
\* to zero.
MarketBuyPayloads ==
  {Payload("buyPower", "alice", s, 1500, 1000) : s \in 0..(MarketStations - 1)}
    \cup {Payload("buyPower", "alice", 0, 1, 1)}

MarketRequests(S) ==
  UNION {{Request("alice", BookingAddr, a, d) : a \in BuyAmounts(S, d)} : d \in MarketBuyPayloads}
    \cup {Request("alice", BookingAddr, 0, Payload("emergencyStop", "alice", b, c, 0)) : b \in 0..(MarketBookings - 1), c \in MarketConsumed}
    \cup {Request("alice", BookingAddr, 0, Payload("prebookCharging", "alice", 0, 1500, 1000))}

WithinMarket(S) ==
  /\ S.stationCount <= MarketStations
  /\ S.bookingCount <= MarketBookings
  /\ SumBalances(S) <= MarketBalance

MarketCommit(r) == (r.ok => WithinMarket(r.st)) /\ Apply(r) /\ UNCHANGED totals

MarketDeposit ==
  \E value \in MarketDepositValues :
    MarketCommit(deposit(Cur, "alice", value))

MarketRegisterStation ==
  \E caller \in MarketOwners :
    /\ caller = MarketOwnerOf(stationCount)
    /\ MarketCommit(registerStation(Cur, caller, "ST-1", "http://device", 2, 1, "1 Main St", 0, 0))

MarketUpdatePrice ==
  \E caller \in MarketOwners, id \in 0..(MarketStations - 1), newPrice \in MarketPrices :
    MarketCommit(updatePrice(Cur, caller, id, newPrice))

MarketWithdrawEarnings ==
  \E caller \in MarketOwners :
    MarketCommit(withdrawEarnings(Cur, caller, 0))

MarketExecute ==
  \E q \in MarketRequests(Cur), t \in BlockTimes :
    MarketCommit(executeTransaction(Cur, admin, q.user, q.target, q.amount, q.data, MarketGas[1], MarketGas[2], t))

MarketNext ==
  \/ MarketDeposit
  \/ MarketRegisterStation
  \/ MarketUpdatePrice
  \/ MarketWithdrawEarnings
  \/ MarketExecute

SpecMarket == Init /\ [][MarketNext]_vars

\* ---------------------------------------------------------------- ledger
\* UserWallet with the totals of what its calls moved: the value of every
\* deposit, the amount of every withdrawal, the cost charged by every
\* executeTransaction and the value of every creditUserRefund called by an
\* account.
MaxDeposited == 250010
MaxCredited == 1

LedgerCreditValues == {0, 1}

LedgerCommit(r, deposited, withdrawn, charged, credited) ==
  /\ r.ok => /\ WithinBounds(r.st)
             /\ totals.deposited + deposited <= MaxDeposited
  /\ Apply(r)
  /\ totals' = IF r.ok
                 THEN [deposited |-> totals.deposited + deposited,
                       withdrawn |-> totals.withdrawn + withdrawn,
                       charged |-> totals.charged + charged,
                       credited |-> totals.credited + credited]
               ELSE totals

LedgerRegisterStation ==
  \E caller \in StationOwners, x \in RegisterCases :
    LedgerCommit(registerStation(Cur, caller, x.uid, x.url, x.price, x.power, x.paddr, x.lat, x.lon), 0, 0, 0, 0)

LedgerDeposit ==
  \E caller \in Users, value \in DepositValues :
    LedgerCommit(deposit(Cur, caller, value), value, 0, 0, 0)

LedgerWithdraw ==
  \E caller \in Users :
    \E amount \in {userBalances[caller], userBalances[caller] + 1} :
      LedgerCommit(withdraw(Cur, caller, amount), 0, amount, 0, 0)

LedgerCreditUserRefund ==
  \E caller \in Users, user \in Users \cup {NullAddr}, value \in LedgerCreditValues :
    /\ totals.credited + value <= MaxCredited
    /\ LedgerCommit(creditUserRefund(Cur, caller, value, user), 0, 0, 0, value)

LedgerExecute ==
  \E caller \in EOA, gas \in GasCases, t \in BlockTimes :
    \E q \in IF caller = admin THEN Requests(Cur) ELSE ForeignRequests :
      LET r == executeTransaction(Cur, caller, q.user, q.target, q.amount, q.data, gas[1], gas[2], t)
      IN LedgerCommit(r, 0, 0, r.charged, 0)

LedgerNext ==
  \/ LedgerRegisterStation
  \/ LedgerDeposit
  \/ LedgerWithdraw
  \/ LedgerCreditUserRefund
  \/ LedgerExecute

SpecLedger == Init /\ [][LedgerNext]_vars

\* ------------------------------------------------------------ properties
\* The calls a property is stated over: every request of the admin above,
\* and each payload also on behalf of either user, with and without value.
ProbeGas == GasCases \cup {<<GasEstimateUnits + 1, 1>>}

ProbeRequests(S) ==
  Requests(S)
    \cup UNION {{Request(u, BookingAddr, a, d) : a \in BuyAmounts(S, d)} : u \in Users, d \in BuyPayloads}
    \cup {Request(u, BookingAddr, a, d) : u \in Users, a \in {0, 1}, d \in PrebookPayloads \cup StopPayloads(S) \cup OtherBookingPayloads}
    \cup {Request(u, StationAddr, a, d) : u \in Users, a \in {0, 1}, d \in StationPayloads}

\* C1: in every reachable state the balances recorded by UserWallet sum to
\* at most the native value UserWallet holds, and no balance is negative.
C1_BalancesCovered ==
  /\ SumBalances(Cur) <= walletBalance
  /\ \A a \in DOMAIN userBalances : userBalances[a] >= 0

\* Reached after a deposit, a purchase, a stop that credited a refund and a
\* bare transfer: the held value exceeds the recorded balances.
C1_Witness ==
  /\ \E id \in DOMAIN bookings : bookings[id].status = STOPPED /\ bookings[id].refundAmount > 0
  /\ SumBalances(Cur) > 0
  /\ walletBalance > SumBalances(Cur)

\* The value a call paid out to account a.
RECURSIVE PaidTo(_, _)
PaidTo(out, a) ==
  IF out = <<>> THEN 0
  ELSE (IF Head(out).to = a THEN Head(out).amount ELSE 0) + PaidTo(Tail(out), a)

\* executeTransaction gets as far as invoking the target.
ReachesTarget(S, caller, q, gasPrice) ==
  /\ caller = S.admin
  /\ BalanceOf(S, q.user) >= q.amount + GasEstimateUnits * gasPrice

\* C2: when the target invocation inside executeTransaction fails, the whole
\* executeTransaction fails and leaves nothing behind: no balance, booking,
\* booking count, earnings or station record changes, nobody is paid and no
\* device instruction is emitted.
C2_FailedTargetUndoesAll ==
  \A caller \in EOA, q \in ProbeRequests(Cur), gas \in ProbeGas, t \in BlockTimes :
    LET r == executeTransaction(Cur, caller, q.user, q.target, q.amount, q.data, gas[1], gas[2], t)
        call == TargetCall(Cur, q.target, q.amount, q.data, t)
    IN (ReachesTarget(Cur, caller, q, gas[2]) /\ ~call.ok) =>
         /\ ~r.ok
         /\ r.st = Cur
         /\ r.out = <<>>
         /\ r.events = <<>>

\* A funded user, for whom the admin can try a purchase that pays too
\* little, a stop of a booking that does not exist and the target that
\* always reverts: each invocation fails.
C2_Witness ==
  \A msg \in {"Insufficient payment", "Booking does not exist", "This function always reverts"} :
    \E q \in Requests(Cur), gas \in GasCases, t \in BlockTimes :
      LET r == executeTransaction(Cur, admin, q.user, q.target, q.amount, q.data, gas[1], gas[2], t)
      IN r.called /\ ~r.callOk /\ r.callErr = msg /\ ~r.ok /\ gas[2] > 0

\* C3: a successful executeTransaction debits user exactly amount +
\* min(actualCost, estimatedCost) from the balance as the target call left
\* it, pays the admin exactly that minimum, never charges more than the
\* estimate and never leaves the user's balance below zero.
C3_ExactDebit ==
  \A caller \in EOA, q \in ProbeRequests(Cur), gas \in ProbeGas, t \in BlockTimes :
    LET r == executeTransaction(Cur, caller, q.user, q.target, q.amount, q.data, gas[1], gas[2], t)
        call == TargetCall(Cur, q.target, q.amount, q.data, t)
        estimatedCost == 250000 * gas[2]
        actualCost == gas[1] * gas[2]
        charge == IF actualCost <= estimatedCost THEN actualCost ELSE estimatedCost
    IN r.ok =>
         /\ call.ok
         /\ BalanceOf(r.st, q.user) = BalanceOf(call.st, q.user) - (q.amount + charge)
         /\ \A u \in DOMAIN userBalances \ {q.user} : BalanceOf(r.st, u) = BalanceOf(call.st, u)
         /\ PaidTo(r.out, admin) = PaidTo(call.out, admin) + charge
         /\ r.st.walletBalance = call.st.walletBalance - charge
         /\ r.charged = charge
         /\ charge <= estimatedCost
         /\ BalanceOf(r.st, q.user) >= 0

\* A purchase was executed at a metered cost above the estimate: the buyer
\* is left with the deposit less the price and the estimate.
C3_Witness ==
  \E id \in DOMAIN bookings, d \in DepositValues :
    /\ bookings[id].pricePaid > 0
    /\ userBalances[bookings[id].user] = d - (bookings[id].pricePaid + GasEstimateUnits)
    /\ walletBalance = userBalances[bookings[id].user]

\* C10: buyPower fails, and with it the enclosing executeTransaction, when
\* the attached value is below the computed price; an attached value above
\* the price has its excess credited to the booking's user through
\* creditUserRefund within the call, so that ChargingBooking retains exactly
\* the price and the ledger gives up exactly price + execution cost charged:
\* taken from the user's balance when the user executed for is the booking's
\* user.
C10_PaymentAndExcess ==
  \A q \in ProbeRequests(Cur), gas \in ProbeGas, t \in BlockTimes :
    LET d == q.data
        r == executeTransaction(Cur, admin, q.user, q.target, q.amount, d, gas[1], gas[2], t)
        call == TargetCall(Cur, q.target, q.amount, d, t)
        price == calculatePrice(Cur, d.id, d.a, d.b)
    IN (q.target = BookingAddr /\ d.fn = "buyPower" /\ price.ok) =>
         /\ q.amount < price.ret =>
              /\ ~buyPower(Cur, WalletAddr, q.amount, d.user, d.id, d.a, d.b, t).ok
              /\ ~r.ok
              /\ r.st = Cur
         /\ r.ok =>
              /\ q.amount >= price.ret
              /\ BalanceOf(call.st, d.user) = BalanceOf(Cur, d.user) + (q.amount - price.ret)
              /\ call.st.walletBalance = walletBalance - price.ret
              /\ r.st.bookingBalance = bookingBalance + price.ret
              /\ BookingAt(r.st, bookingCount).pricePaid = price.ret
              /\ SumBalances(r.st) = SumBalances(Cur) - (price.ret + r.charged)
              /\ q.user = d.user =>
                   BalanceOf(r.st, q.user) = BalanceOf(Cur, q.user) - (price.ret + r.charged)

\* A funded user at a priced station: the admin can execute a purchase that
\* attaches more than the price at a cost, and one that attaches less.
C10_Witness ==
  /\ \E q \in Requests(Cur), gas \in GasCases, t \in BlockTimes :
       LET r == executeTransaction(Cur, admin, q.user, q.target, q.amount, q.data, gas[1], gas[2], t)
           price == calculatePrice(Cur, q.data.id, q.data.a, q.data.b)
       IN /\ q.data.fn = "buyPower" /\ q.user = q.data.user /\ price.ok
          /\ q.amount > price.ret /\ price.ret > 0
          /\ r.ok /\ r.charged > 0
          /\ BalanceOf(r.st, q.user) = BalanceOf(Cur, q.user) - (price.ret + r.charged)
  /\ \E q \in Requests(Cur), gas \in GasCases, t \in BlockTimes :
       LET r == executeTransaction(Cur, admin, q.user, q.target, q.amount, q.data, gas[1], gas[2], t)
           price == calculatePrice(Cur, q.data.id, q.data.a, q.data.b)
       IN /\ q.data.fn = "buyPower" /\ price.ok /\ q.amount < price.ret
          /\ r.called /\ r.callErr = "Insufficient payment"

\* The emergencyStop calls a property is stated over: for either user or no
\* user, on every booking id up to the next free one, with nothing, part,
\* all and more than the booked watts consumed.
StopProbes(S) ==
  UNION {{[user |-> u, bookingId |-> b, wattsConsumed |-> c] : c \in {0, 400, BookingAt(S, b).watt, BookingAt(S, b).watt + 1}} : u \in Users \cup {NullAddr}, b \in 0..S.bookingCount}

RECURSIVE StopRefunds(_, _)
StopRefunds(log, id) ==
  IF log = <<>> THEN 0
  ELSE (IF Head(log).event = "EmergencyStopTriggered" /\ Head(log).bookingId = id
          THEN Head(log).b ELSE 0) + StopRefunds(Tail(log), id)

StopCount(log, id) ==
  Cardinality({i \in DOMAIN log : log[i].event = "EmergencyStopTriggered" /\ log[i].bookingId = id})

\* C5: every booking has refundAmount <= pricePaid, and what emergencyStop
\* returned for one booking over the whole run never exceeds what was paid
\* for it: a booking is settled at most once.
C5_RefundWithinPaid ==
  \A id \in DOMAIN bookings :
    /\ bookings[id].refundAmount <= bookings[id].pricePaid
    /\ StopRefunds(deviceLog, id) <= bookings[id].pricePaid
    /\ StopCount(deviceLog, id) <= 1
    /\ StopRefunds(deviceLog, id) = bookings[id].refundAmount

\* A booking bought at the lower price was stopped unused after the price
\* rose: the refund computed at the new price is above the price paid, and
\* the booking records the price paid.
C5_Witness ==
  \E id \in DOMAIN bookings :
    LET b == bookings[id] IN
    /\ b.status = STOPPED
    /\ b.pricePaid > 0
    /\ b.refundAmount = b.pricePaid
    /\ (b.watt - b.wattsConsumed) * b.power * stations[b.stationId].pricePerWatt > b.pricePaid * 1000000
    /\ StopCount(deviceLog, id) = 1

\* emergencyStop(x) executed by the admin on behalf of payer fails and
\* leaves nothing behind.
ExecutedStopFails(S, payer, x) ==
  \A t \in BlockTimes :
    LET e == executeTransaction(S, S.admin, payer, BookingAddr, 0,
                                Payload("emergencyStop", x.user, x.bookingId, x.wattsConsumed, 0),
                                MarketGas[1], MarketGas[2], t)
    IN ~e.ok /\ e.st = S /\ e.out = <<>> /\ e.events = <<>>

\* C6: emergencyStop on a booking that is already STOPPED fails for any
\* consumption and any user argument and changes nothing: not the booking,
\* the owner's earnings, the value ChargingBooking holds or any balance.
C6_SecondStopFails ==
  \A x \in StopProbes(Cur) :
    BookingAt(Cur, x.bookingId).status = STOPPED =>
      /\ LET r == emergencyStop(Cur, WalletAddr, 0, x.user, x.bookingId, x.wattsConsumed)
         IN ~r.ok /\ r.st = Cur /\ r.events = <<>>
      /\ \A payer \in Users : ExecutedStopFails(Cur, payer, x)

\* A STOPPED booking whose station owner still holds earnings that cover a
\* full refund of it: only the status stands against a second stop.
C6_Witness ==
  \E id \in DOMAIN bookings :
    LET b == bookings[id] IN
    /\ b.status = STOPPED
    /\ b.pricePaid > 0
    /\ b.refundAmount > 0
    /\ EarningsOf(Cur, stations[b.stationId].owner) >= b.pricePaid
    /\ bookingBalance >= b.pricePaid

\* C7: emergencyStop fails, the booking staying ACTIVE and every balance and
\* earning as it was, whenever the station owner's earnings are below the
\* computed refund; a stop that succeeds refunds the computed amount, never
\* one reduced to the earnings; no owner's earnings are ever negative.
C7_StopNeedsEarnings ==
  /\ \A a \in DOMAIN ownerEarnings : ownerEarnings[a] >= 0
  /\ \A x \in StopProbes(Cur) :
       LET r == emergencyStop(Cur, WalletAddr, 0, x.user, x.bookingId, x.wattsConsumed)
           b == BookingAt(Cur, x.bookingId)
           station == StationAt(Cur, b.stationId)
           computed == ((b.watt - x.wattsConsumed) * b.power * station.pricePerWatt) \div 1000000
           refund == IF computed <= b.pricePaid THEN computed ELSE b.pricePaid
       IN (b.exists /\ b.user = x.user /\ b.status = ACTIVE /\ b.pricePaid > 0 /\ x.wattsConsumed <= b.watt) =>
            /\ EarningsOf(Cur, station.owner) < refund =>
                 /\ ~r.ok
                 /\ r.st = Cur
                 /\ \A payer \in Users : ExecutedStopFails(Cur, payer, x)
            /\ r.ok => r.ret = refund /\ r.st.bookings[x.bookingId].refundAmount = refund

\* An ACTIVE paid booking whose station owner has withdrawn: the owner's
\* earnings are below the refund of the unused booking, while ChargingBooking
\* still holds that much for the other owner.
C7_Witness ==
  \E id \in DOMAIN bookings :
    LET b == bookings[id]
        refund == RefundFor(b, 0, stations[b.stationId].pricePerWatt)
    IN /\ b.status = ACTIVE
       /\ b.pricePaid > 0
       /\ EarningsOf(Cur, stations[b.stationId].owner) < refund
       /\ bookingBalance >= refund

\* C8: emergencyStop fails and changes nothing unless the booking exists,
\* its user is the user argument, its status is ACTIVE, its pricePaid is
\* above 0 and the consumption is at most the booked watts; a consumption
\* above them is rejected, not clamped.
C8_StopPreconditions ==
  \A x \in StopProbes(Cur) :
    LET r == emergencyStop(Cur, WalletAddr, 0, x.user, x.bookingId, x.wattsConsumed)
        b == BookingAt(Cur, x.bookingId)
    IN /\ ~(b.exists /\ b.user = x.user /\ b.status = ACTIVE /\ b.pricePaid > 0 /\ x.wattsConsumed <= b.watt) =>
            /\ ~r.ok
            /\ r.st = Cur
            /\ \A payer \in Users : ExecutedStopFails(Cur, payer, x)
       /\ r.ok => r.st.bookings[x.bookingId].wattsConsumed = x.wattsConsumed

\* A prebooked and a paid ACTIVE booking side by side: stops are refused for
\* the booking that does not exist, for the other user, for the prebooking
\* and for a consumption above the booked watts.
C8_Witness ==
  /\ \E id \in DOMAIN bookings : bookings[id].pricePaid = 0 /\ bookings[id].status = ACTIVE
  /\ \A msg \in {"Booking does not exist", "Only booking owner can emergency stop",
                  "Cannot emergency stop prebookings", "Consumed watts cannot exceed booked watts"} :
       \E x \in StopProbes(Cur) :
         LET r == emergencyStop(Cur, WalletAddr, 0, x.user, x.bookingId, x.wattsConsumed)
         IN ~r.ok /\ r.err = msg

\* The buyPower calls a property is stated over.
BuyProbes(S) ==
  {[user |-> u, stationId |-> s, watt |-> y[1], power |-> y[2], value |-> v] :
     u \in Users, s \in 0..S.stationCount,
     y \in {<<1500, 1000>>, <<1500, 2000>>, <<0, 1000>>, <<1, 1>>}, v \in 0..4}

\* C9: a successful buyPower creates exactly one booking, with that user,
\* station, watts and rate, pricePaid = calculatePrice at the station's
\* current price, status ACTIVE, nothing consumed and nothing refunded; it
\* adds exactly pricePaid to the earnings of the station's owner and leaves
\* every other owner's earnings as they were.
C9_PurchaseRecorded ==
  \A x \in BuyProbes(Cur), t \in BlockTimes :
    LET r == buyPower(Cur, WalletAddr, x.value, x.user, x.stationId, x.watt, x.power, t)
        station == StationAt(Cur, x.stationId)
        quoted == calculatePrice(Cur, x.stationId, x.watt, x.power)
        price == (x.watt * x.power * station.pricePerWatt) \div 1000000
    IN r.ok =>
         /\ quoted.ok /\ quoted.ret = price
         /\ r.ret = bookingCount
         /\ r.st.bookingCount = bookingCount + 1
         /\ DOMAIN r.st.bookings = DOMAIN bookings \cup {bookingCount}
         /\ \A id \in DOMAIN bookings : r.st.bookings[id] = bookings[id]
         /\ r.st.bookings[bookingCount] =
              [user |-> x.user, stationId |-> x.stationId, watt |-> x.watt, power |-> x.power,
               pricePaid |-> price, timestamp |-> t, exists |-> TRUE, status |-> ACTIVE,
               wattsConsumed |-> 0, refundAmount |-> 0]
         /\ r.st.ownerEarnings = [ownerEarnings EXCEPT ![station.owner] = @ + price]

\* Two paid ACTIVE bookings at the stations of two owners: each owner has
\* earned what was paid at the own station.
C9_Witness ==
  \E i \in DOMAIN bookings, j \in DOMAIN bookings :
    /\ bookings[i].status = ACTIVE /\ bookings[j].status = ACTIVE
    /\ bookings[i].pricePaid > 0 /\ bookings[j].pricePaid > 0
    /\ stations[bookings[i].stationId].owner # stations[bookings[j].stationId].owner
    /\ ownerEarnings[stations[bookings[i].stationId].owner] = bookings[i].pricePaid
    /\ ownerEarnings[stations[bookings[j].stationId].owner] = bookings[j].pricePaid
    /\ Len(deviceLog) = 2

\* The storage of the three contracts after construction.
Constructed ==
  [admin |-> Deployer, userBalances |-> [a \in Addr |-> 0], walletBalance |-> 0,
   stations |-> <<>>, stationCount |-> 0, bookings |-> <<>>,
   userBookings |-> [a \in Addr |-> <<>>], ownerEarnings |-> [a \in Addr |-> 0],
   bookingCount |-> 0, bookingBalance |-> 0]

\* One station registered with pricePerWatt 1000000 and power 1000.
ScenarioA ==
  registerStation(Constructed, "op", "ST-A", "http://device", 1000000, 1000, "1 Main St", 0, 0).st

\* The calculatePrice calls a property is stated over.
PriceProbes(S) ==
  {[stationId |-> s, watt |-> w, power |-> p] :
     s \in 0..S.stationCount, w \in {0, 1, 100, 1500},
     p \in {0, 1, 500, 1000, 1001, 2000, 2001}}

\* calculatePrice answers x as the source does, on state S.
PriceAnswered(S, x) ==
  LET r == calculatePrice(S, x.stationId, x.watt, x.power)
      station == StationAt(S, x.stationId)
  IN /\ r.st = S
     /\ r.ok <=> (station.exists /\ x.power <= station.power * 1000 /\ x.watt > 0 /\ x.power > 0)
     /\ r.ok => r.ret = (x.watt * x.power * station.pricePerWatt) \div 1000000

\* C11: calculatePrice returns floor(units x rate x pricePerUnit / 1000000)
\* at the station's current price, fails for a station that does not exist,
\* for a rate above capacity x 1000 and for zero units or rate, and changes
\* no state; with pricePerUnit 1000000 and capacity 1000,
\* calculatePrice(id, 100, 500) is 100 x 500 x 1000000 / 1000000 = 50000.
C11_PriceFormula ==
  /\ \A x \in PriceProbes(Cur) : PriceAnswered(Cur, x)
  /\ LET r == calculatePrice(ScenarioA, 0, 100, 500)
     IN r.ok /\ r.ret = 50000 /\ r.st = ScenarioA

\* C11 as stated, with the scenario's price given as 50000000.
C11_AsStated ==
  /\ \A x \in PriceProbes(Cur) : PriceAnswered(Cur, x)
  /\ LET r == calculatePrice(ScenarioA, 0, 100, 500)
     IN r.ok /\ r.ret = 50000000 /\ r.st = ScenarioA

\* A station whose price and capacity were both raised: a price is quoted,
\* and a quote is refused for each of the three reasons.
C11_Witness ==
  /\ \E id \in DOMAIN stations : stations[id].power > 1 /\ stations[id].pricePerWatt > 1
  /\ \E x \in PriceProbes(Cur) :
       LET r == calculatePrice(Cur, x.stationId, x.watt, x.power) IN r.ok /\ r.ret > 0
  /\ \A msg \in {"Charging station does not exist", "Requested power exceeds station capacity",
                  "Watt and power must be greater than 0"} :
       \E x \in PriceProbes(Cur) : calculatePrice(Cur, x.stationId, x.watt, x.power).err = msg

\* C12: every successful emergencyStop with nothing consumed refunds exactly
\* the booking's pricePaid, and every one with all booked watts consumed
\* refunds 0, also when updatePrice or updatePower changed the station's
\* price between the purchase and the stop.
C12_ZeroAndFullConsumption ==
  \A id \in DOMAIN bookings :
    LET b == bookings[id] IN
    b.status = STOPPED =>
      /\ b.wattsConsumed = 0 => b.refundAmount = b.pricePaid
      /\ b.wattsConsumed = b.watt => b.refundAmount = 0

\* C13: for every valid station, units and rate, buyPower followed at once
\* by emergencyStop with all the booked units consumed refunds 0 and leaves
\* the owner the price paid on top of the earnings before; followed at once
\* by emergencyStop with nothing
\* consumed it refunds pricePaid and puts the owner's earnings and the value
\* ChargingBooking holds back where they were before the purchase.
C13_RoundTrip ==
  \A x \in BuyProbes(Cur), t \in BlockTimes :
    LET bought == buyPower(Cur, WalletAddr, x.value, x.user, x.stationId, x.watt, x.power, t)
        owner == StationAt(Cur, x.stationId).owner
        paid == BookingAt(bought.st, bought.ret).pricePaid
        full == emergencyStop(bought.st, WalletAddr, 0, x.user, bought.ret, x.watt)
        zero == emergencyStop(bought.st, WalletAddr, 0, x.user, bought.ret, 0)
    IN bought.ok =>
         /\ full.ok
         /\ full.ret = 0
         /\ full.st.bookings[bought.ret].refundAmount = 0
         /\ EarningsOf(full.st, owner) = EarningsOf(Cur, owner) + paid
         /\ zero.ok
         /\ zero.ret = paid
         /\ zero.st.bookings[bought.ret].refundAmount = paid
         /\ zero.st.ownerEarnings = ownerEarnings
         /\ zero.st.bookingBalance = bookingBalance

\* C14: a booking's status only moves from ACTIVE to STOPPED: no booking is
\* ever COMPLETED, a STOPPED booking never becomes ACTIVE again, no booking
\* is deleted, and a STOPPED booking keeps every field under every later
\* operation.
C14_StatusOneWay ==
  /\ [](\A id \in DOMAIN bookings : bookings[id].status # COMPLETED)
  /\ [][\A id \in DOMAIN bookings :
          /\ id \in DOMAIN bookings'
          /\ bookings'[id].exists
          /\ bookings'[id].status \in {bookings[id].status, STOPPED}
          /\ bookings[id].status = STOPPED => bookings'[id] = bookings[id]]_vars

\* A booking was stopped and a later purchase or stop followed: the stopped
\* booking still records what its stop instruction carried.
C14_Witness ==
  \E i \in DOMAIN deviceLog :
    /\ deviceLog[i].event = "EmergencyStopTriggered"
    /\ i < Len(deviceLog)
    /\ LET b == bookings[deviceLog[i].bookingId] IN
         /\ b.status = STOPPED
         /\ b.wattsConsumed = deviceLog[i].a
         /\ b.refundAmount = deviceLog[i].b
         /\ b.refundAmount > 0

\* C15: a booking with pricePaid = 0 is a pre-booking: no /toggle
\* instruction was ever emitted for it and it is never STOPPED; every booking
\* created by a successful buyPower, each of which emits that instruction,
\* has pricePaid > 0.
C15_UnpaidIsPrebooking ==
  /\ \A id \in DOMAIN bookings :
       bookings[id].pricePaid = 0 =>
         /\ bookings[id].status # STOPPED
         /\ \A i \in DOMAIN deviceLog :
              ~(deviceLog[i].event = "DeviceControlTriggered" /\ deviceLog[i].bookingId = id)
  /\ \A i \in DOMAIN deviceLog :
       deviceLog[i].event = "DeviceControlTriggered" => bookings[deviceLog[i].bookingId].pricePaid > 0

\* The prebookCharging payloads a property is stated over: for either user,
\* at a registered and at an unregistered station, with and without units.
PrebookProbes ==
  PrebookPayloads \cup {Payload("prebookCharging", u, s, 0, 0) : u \in Users, s \in StationIds}

\* C16: prebookCharging executed by the admin with amount 0 creates exactly
\* one booking with the given user, station, units and rate, pricePaid 0,
\* status ACTIVE, nothing consumed and nothing refunded; it returns the
\* booking count from before the call, emits no device instruction and
\* changes no owner's earnings and no value held by ChargingBooking.
C16_PrebookRecorded ==
  \A payer \in Users, d \in PrebookProbes, gas \in ProbeGas, t \in BlockTimes :
    LET r == executeTransaction(Cur, admin, payer, BookingAddr, 0, d, gas[1], gas[2], t)
    IN /\ BalanceOf(Cur, payer) >= GasEstimateUnits * gas[2] => r.ok
       /\ r.ok =>
            /\ r.ret = bookingCount
            /\ r.st.bookingCount = bookingCount + 1
            /\ DOMAIN r.st.bookings = DOMAIN bookings \cup {bookingCount}
            /\ \A id \in DOMAIN bookings : r.st.bookings[id] = bookings[id]
            /\ r.st.bookings[bookingCount] =
                 [user |-> d.user, stationId |-> d.id, watt |-> d.a, power |-> d.b,
                  pricePaid |-> 0, timestamp |-> t, exists |-> TRUE, status |-> ACTIVE,
                  wattsConsumed |-> 0, refundAmount |-> 0]
            /\ r.events = <<>>
            /\ r.st.ownerEarnings = ownerEarnings
            /\ r.st.bookingBalance = bookingBalance
            /\ r.st.stations = stations

\* A pre-booking was executed at a cost: the booking is unpaid and ACTIVE,
\* nothing was earned, held or sent to a device, and the user paid the
\* estimate only.
C16_Witness ==
  /\ bookingCount = 1
  /\ bookings[0].pricePaid = 0
  /\ bookings[0].status = ACTIVE
  /\ deviceLog = <<>>
  /\ bookingBalance = 0
  /\ \A a \in DOMAIN ownerEarnings : ownerEarnings[a] = 0
  /\ \E v \in DepositValues : v > 0 /\ userBalances[bookings[0].user] = v - GasEstimateUnits

\* executeTransaction(q) called by `caller` in state S, at cost `gas`.
Executed(S, caller, q, gas, t) ==
  executeTransaction(S, caller, q.user, q.target, q.amount, q.data, gas[1], gas[2], t)

\* Nothing `caller` tries as admin works in state S: no executeTransaction
\* and no changeAdmin, and the state stays as it is.
LockedOut(S, caller) ==
  /\ \A q \in Requests(S) \cup ForeignRequests, gas \in GasCases, t \in BlockTimes :
       LET e == Executed(S, caller, q, gas, t)
       IN ~e.ok /\ ~e.called /\ e.st = S /\ e.out = <<>> /\ e.events = <<>>
  /\ \A newAdmin \in EOA \cup {NullAddr} :
       LET c == changeAdmin(S, caller, newAdmin) IN ~c.ok /\ c.st = S

\* C17: executeTransaction and changeAdmin fail with no state change unless
\* the caller is the current admin; changeAdmin rejects the null address, so
\* the admin is never null; after a successful changeAdmin to another
\* account the previous admin can neither execute nor change the admin, and
\* the new one can do both.
C17_OnlyAdmin ==
  /\ admin # NullAddr
  /\ \A caller \in EOA \ {admin} : LockedOut(Cur, caller)
  /\ LET c == changeAdmin(Cur, admin, NullAddr) IN ~c.ok /\ c.st = Cur
  /\ \A newAdmin \in EOA \ {admin} :
       LET c == changeAdmin(Cur, admin, newAdmin) IN
       /\ c.ok
       /\ c.st = [Cur EXCEPT !.admin = newAdmin]
       /\ LockedOut(c.st, admin)
       /\ \A next \in EOA : changeAdmin(c.st, newAdmin, next).ok
       /\ \A q \in Requests(Cur), gas \in GasCases, t \in BlockTimes :
            LET before == Executed(Cur, admin, q, gas, t)
                after == Executed(c.st, newAdmin, q, gas, t)
            IN /\ after.ok = before.ok
               /\ after.called = before.called
               /\ after.ok => after.st = [before.st EXCEPT !.admin = newAdmin]

\* The admin was changed: the deployer is locked out, and the new admin has
\* a purchase to execute that succeeds at a cost.
C17_Witness ==
  /\ admin # Deployer
  /\ \E q \in Requests(Cur), gas \in GasCases, t \in BlockTimes :
       /\ q.data.fn = "buyPower"
       /\ Executed(Cur, admin, q, gas, t).ok
       /\ Executed(Cur, admin, q, gas, t).charged > 0
       /\ Executed(Cur, Deployer, q, gas, t).err = "Only admin can execute this function"

\* The callers of ChargingBooking other than UserWallet, and what they try.
DirectCallers == EOA \cup {StationAddr, BookingAddr}

DirectProbes(S) == BuyPayloads \cup PrebookPayloads \cup StopPayloads(S)

\* The step is an executeTransaction of the current admin that succeeded.
AdminExecutedStep ==
  \E q \in Requests(Cur), gas \in GasCases, t \in BlockTimes :
    LET e == Executed(Cur, admin, q, gas, t)
    IN e.ok /\ e.called /\ Cur' = e.st /\ deviceLog' = deviceLog \o e.events

\* C18: prebookCharging, buyPower and emergencyStop fail with no state
\* change unless their immediate caller is UserWallet; so in every behaviour
\* the booking records, the booking count and every credit of a purchase to
\* or debit of a refund from owner earnings change only in an
\* executeTransaction step of the current admin: no user, station owner or
\* former admin can create, pay for or stop a booking.
C18_OnlyThroughWallet ==
  /\ [](\A caller \in DirectCallers, d \in DirectProbes(Cur), value \in {0, 1, 3}, t \in BlockTimes :
          LET r == CallBooking(Cur, caller, value, d, t)
          IN ~r.ok /\ r.st = Cur /\ r.events = <<>>)
  /\ [](\A caller \in EOA \ {admin} : LockedOut(Cur, caller))
  /\ [][(\/ bookings' # bookings
          \/ bookingCount' # bookingCount
          \/ userBookings' # userBookings
          \/ \E a \in DOMAIN ownerEarnings : ownerEarnings'[a] \notin {ownerEarnings[a], 0})
         => AdminExecutedStep]_vars

\* After a change of admin a booking was bought and stopped: the deployer,
\* the buyer and the station owner are each refused a purchase, a
\* pre-booking and a stop made directly.
C18_Witness ==
  /\ admin # Deployer
  /\ \E id \in DOMAIN bookings : bookings[id].status = STOPPED /\ bookings[id].refundAmount > 0
  /\ \A caller \in EOA, fn \in {"buyPower", "prebookCharging", "emergencyStop"} :
       \E d \in DirectProbes(Cur), t \in BlockTimes :
         /\ d.fn = fn
         /\ CallBooking(Cur, caller, 0, d, t).err = "Only UserWallet contract can execute this function"

\* estimatedGasCost of executeTransaction at a gas price.
EstimatedGasCost(gasPrice) == GasEstimateUnits * gasPrice

\* C19: executeTransaction fails, without invoking the target and with no
\* change of any balance, booking, earnings or station, whenever the user's
\* balance is below amount + the estimated execution cost, even when the
\* balance covers amount.
C19_EstimateRequired ==
  \A q \in ProbeRequests(Cur), gas \in ProbeGas, t \in BlockTimes :
    BalanceOf(Cur, q.user) < q.amount + EstimatedGasCost(gas[2]) =>
      LET r == Executed(Cur, admin, q, gas, t)
      IN /\ ~r.ok
         /\ ~r.called
         /\ r.st = Cur
         /\ r.events = <<>>
         /\ r.out = <<>>
         /\ r.charged = 0

\* After an earlier purchase a user's balance covers the price of a
\* purchase the target would accept, but not the price plus the estimate:
\* the call is refused for balance for tx + gas.
C19_Witness ==
  \E q \in ProbeRequests(Cur), gas \in ProbeGas, t \in BlockTimes :
    /\ bookingCount > 0
    /\ q.amount > 0
    /\ q.data.fn = "buyPower"
    /\ BalanceOf(Cur, q.user) >= q.amount
    /\ BalanceOf(Cur, q.user) < q.amount + EstimatedGasCost(gas[2])
    /\ TargetCall(Cur, q.target, q.amount, q.data, t).ok
    /\ Executed(Cur, admin, q, gas, t).err = "Insufficient balance for tx + gas"

\* C20: after any sequence of deposit, withdraw, executeTransaction and
\* creditUserRefund calls by any callers, the sum of all user balances is at
\* most the total deposited, plus the total value accounts sent with
\* creditUserRefund calls of their own, minus the total withdrawn minus the
\* total execution cost charged.
C20_BalancesWithinFunding ==
  SumBalances(Cur) <= totals.deposited + totals.credited - totals.withdrawn - totals.charged

\* The bound without the value credited by direct creditUserRefund calls:
\* total deposited minus total withdrawn minus total execution cost charged.
C20_AsStated ==
  SumBalances(Cur) <= totals.deposited - totals.withdrawn - totals.charged

\* Every kind of call has acted: a deposit, a charged execution, a stop that
\* refunded through creditUserRefund, a credit sent by an account, and a
\* withdrawal, with balances still held.
C20_Witness ==
  /\ totals.deposited > 0
  /\ totals.charged > 0
  /\ totals.credited > 0
  /\ totals.withdrawn > 0
  /\ \E id \in DOMAIN bookings : bookings[id].status = STOPPED /\ bookings[id].refundAmount > 0
  /\ SumBalances(Cur) > 0

\* C21: withdrawEarnings fails with no state change when the caller's
\* earnings are 0; otherwise it sets exactly the caller's earnings to 0,
\* pays exactly the previous earnings to the caller, lowers the balance of
\* ChargingBooking by that amount and leaves every other owner's earnings
\* and every booking unchanged.
C21_WithdrawEarnings ==
  \A caller \in EOA :
    LET earnings == EarningsOf(Cur, caller)
        r == withdrawEarnings(Cur, caller, 0)
    IN IF earnings = 0
         THEN ~r.ok /\ r.st = Cur /\ r.out = <<>>
         ELSE /\ r.ok
              /\ r.out = <<Payment(caller, earnings)>>
              /\ r.st = [Cur EXCEPT !.ownerEarnings[caller] = 0,
                                    !.bookingBalance = @ - earnings]
              /\ r.st.bookingBalance >= 0

\* One owner has withdrawn what a purchase at their station earned (the paid
\* booking is still active, the earnings are 0) while the other owner's
\* earnings are still held by ChargingBooking.
C21_Witness ==
  /\ \E id \in DOMAIN bookings :
       /\ bookings[id].status = ACTIVE
       /\ bookings[id].pricePaid > 0
       /\ ownerEarnings[StationAt(Cur, bookings[id].stationId).owner] = 0
  /\ \E other \in MarketOwners : ownerEarnings[other] > 0 /\ bookingBalance = ownerEarnings[other]

\* The members of a set of ids in increasing order.
RECURSIVE InOrder(_)
InOrder(ids) ==
  IF ids = {} THEN <<>>
  ELSE LET least == CHOOSE x \in ids : \A y \in ids : x <= y
       IN <<least>> \o InOrder(ids \ {least})

\* The bookings buyPower created: it announces each in DeviceControlTriggered.
BoughtIds ==
  {deviceLog[k].bookingId : k \in {j \in DOMAIN deviceLog : deviceLog[j].event = "DeviceControlTriggered"}}

BoughtAt(stationId) == {id \in BoughtIds : bookings[id].stationId = stationId}

PrebookedAt(stationId) == {id \in DOMAIN bookings \ BoughtIds : bookings[id].stationId = stationId}

\* C22: getStationBookings(s) returns exactly the bookings buyPower created
\* for station s (user, amount paid, id) in increasing id order,
\* getStationPrebookings(s) returns exactly those prebookCharging created for
\* s in the same order, and no booking created by buyPower is among the
\* pre-bookings.
C22_StationLists ==
  \A s \in 0..MarketStations :
    LET paid == getStationBookings(Cur, s)
        pre == getStationPrebookings(Cur, s)
    IN /\ paid.bookingIds = InOrder(BoughtAt(s))
       /\ \A k \in DOMAIN paid.bookingIds :
            /\ paid.users[k] = bookings[paid.bookingIds[k]].user
            /\ paid.amountsPaid[k] = bookings[paid.bookingIds[k]].pricePaid
       /\ pre.bookingIds = InOrder(PrebookedAt(s))
       /\ \A k \in DOMAIN pre.bookingIds : pre.bookingIds[k] \notin BoughtIds

\* The units and rates whose prices are compared with those of their doubles.
UnitProbes == {1, 250, 750, 1500}

RateProbes == {1, 500, 1000, 2000}

\* calculatePrice(s, 2 * units, rate) and calculatePrice(s, units, 2 * rate)
\* are `double` or `double + 1` with double = 2 * calculatePrice(s, units,
\* rate), and exactly `double` when `exact`.
DoublingWithin(S, s, w, p, slack) ==
  LET r == calculatePrice(S, s, w, p)
      units2 == calculatePrice(S, s, 2 * w, p)
      rate2 == calculatePrice(S, s, w, 2 * p)
  IN r.ok =>
       /\ units2.ok
       /\ units2.ret - 2 * r.ret \in slack
       /\ rate2.ok <=> 2 * p <= S.stations[s].power * SCALE_FACTOR
       /\ rate2.ok => rate2.ret - 2 * r.ret \in slack

\* units x rate x pricePerWatt is a multiple of 10^6.
WholePrice(S, s, w, p) == (w * p * S.stations[s].pricePerWatt) % (SCALE_FACTOR * SCALE_FACTOR) = 0

\* C23: for a fixed station state, calculatePrice of twice the units is twice
\* the price, or one more, and is exactly twice the price whenever units x
\* rate x pricePerWatt is a multiple of 10^6; the same holds for twice the
\* rate whenever twice the rate is within capacity.
C23_DoublingUpToRounding ==
  \A s \in DOMAIN stations, w \in UnitProbes, p \in RateProbes :
    /\ DoublingWithin(Cur, s, w, p, {0, 1})
    /\ WholePrice(Cur, s, w, p) => DoublingWithin(Cur, s, w, p, {0})

\* C23 as stated: the price of twice the units, and of twice the rate when
\* within capacity, is exactly twice the price.
C23_AsStated ==
  \A s \in DOMAIN stations, w \in UnitProbes, p \in RateProbes :
    DoublingWithin(Cur, s, w, p, {0})

\* A station with capacity for a doubled rate: one price above 0 doubles
\* exactly with the units and with the rate, another price is one short of
\* half the price of twice the units, and one rate cannot be doubled.
C23_Witness ==
  \E s \in DOMAIN stations :
    /\ \E w \in UnitProbes, p \in RateProbes :
         /\ calculatePrice(Cur, s, w, p).ok
         /\ calculatePrice(Cur, s, w, p).ret > 0
         /\ calculatePrice(Cur, s, 2 * w, p).ret = 2 * calculatePrice(Cur, s, w, p).ret
         /\ calculatePrice(Cur, s, w, 2 * p).ok
         /\ calculatePrice(Cur, s, w, 2 * p).ret = 2 * calculatePrice(Cur, s, w, p).ret
    /\ \E w \in UnitProbes, p \in RateProbes :
         /\ calculatePrice(Cur, s, w, p).ok
         /\ calculatePrice(Cur, s, 2 * w, p).ret = 2 * calculatePrice(Cur, s, w, p).ret + 1
    /\ \E w \in UnitProbes, p \in RateProbes :
         /\ calculatePrice(Cur, s, w, p).ok
         /\ ~calculatePrice(Cur, s, w, 2 * p).ok

\* The callers and new values the station updates are tried with.
StationCallers == EOA \cup {WalletAddr, BookingAddr}

PowerProbes == {0, 1, 2, 3, 5}

\* One station registered by op with power 1000 and the given price.
ScenarioF(price) ==
  registerStation(Constructed, "op", "ST-F", "http://device", price, 1000, "1 Main St", 0, 0).st

ScenarioPrices == {1, 2, 3, 1000000}

\* Every successful updatePower sets the power to newPower and the price as
\* stated, and writes nothing else.
PowerUpdated(S, caller, id, newPower) ==
  LET r == updatePower(S, caller, id, newPower)
      old == StationAt(S, id)
      price == IF newPower > old.power
                 THEN old.pricePerWatt
                        + (old.pricePerWatt * (((newPower - old.power) * 100) \div old.power)) \div 100
               ELSE old.pricePerWatt
  IN r.ok =>
       r.st = [S EXCEPT !.stations[id] = [old EXCEPT !.power = newPower, !.pricePerWatt = price]]

\* C24: a successful updatePower(id, newPower) sets the power to newPower and
\* the price to oldPrice + floor(oldPrice x floor((newPower - oldPower) x 100
\* / oldPower) / 100) when newPower > oldPower, and leaves the price as it was
\* when newPower <= oldPower; from power 1000 to 1500 the price rises by
\* floor(oldPrice x 50 / 100): half the prior price, rounded down.
C24_PowerUpdate ==
  /\ \A caller \in StationCallers, id \in StationIds, newPower \in PowerProbes :
       PowerUpdated(Cur, caller, id, newPower)
  /\ \A price \in ScenarioPrices :
       LET r == updatePower(ScenarioF(price), "op", 0, 1500)
       IN /\ r.ok
          /\ r.st.stations[0].power = 1500
          /\ r.st.stations[0].pricePerWatt = price + (price * 50) \div 100

\* C24 as stated: from power 1000 to 1500 the price rises by exactly half
\* the prior price.
C24_AsStated ==
  /\ \A caller \in StationCallers, id \in StationIds, newPower \in PowerProbes :
       PowerUpdated(Cur, caller, id, newPower)
  /\ \A price \in ScenarioPrices :
       LET r == updatePower(ScenarioF(price), "op", 0, 1500)
       IN /\ r.ok
          /\ r.st.stations[0].power = 1500
          /\ 2 * (r.st.stations[0].pricePerWatt - price) = price

\* A station whose power was raised: a further increase raises its price,
\* and a decrease succeeds and leaves the price.
C24_Witness ==
  \E id \in DOMAIN stations :
    LET owner == stations[id].owner IN
    /\ stations[id].power = 2
    /\ stations[id].pricePerWatt = 2
    /\ updatePower(Cur, owner, id, 3).ok
    /\ updatePower(Cur, owner, id, 3).st.stations[id].pricePerWatt = 3
    /\ updatePower(Cur, owner, id, 1).ok
    /\ updatePower(Cur, owner, id, 1).st.stations[id].pricePerWatt = 2

\* The caller is the station's recorded owner or the UserWallet contract.
MayUpdate(S, caller, id) ==
  StationAt(S, id).exists /\ (StationAt(S, id).owner = caller \/ caller = WalletAddr)

\* C25: updatePower and updatePrice fail with no state change unless the
\* caller is the station's recorded owner or the UserWallet contract, and
\* also when the station does not exist or the new value is 0; a successful
\* updatePrice sets the price to exactly newPrice and leaves the power, and
\* everything else, unchanged.
C25_StationUpdatesGuarded ==
  \A caller \in StationCallers, id \in StationIds, v \in PowerProbes :
    LET power == updatePower(Cur, caller, id, v)
        price == updatePrice(Cur, caller, id, v)
    IN /\ power.ok <=> (MayUpdate(Cur, caller, id) /\ v > 0)
       /\ price.ok <=> (MayUpdate(Cur, caller, id) /\ v > 0)
       /\ ~power.ok => power.st = Cur
       /\ ~price.ok => price.st = Cur
       /\ price.ok => price.st = [Cur EXCEPT !.stations[id].pricePerWatt = v]

\* A station whose price was changed after registration: the owner and
\* UserWallet may change it again, a user and ChargingBooking may not, a
\* zero value is refused, and so is an update of a station never registered.
C25_Witness ==
  \E id \in DOMAIN stations :
    LET owner == stations[id].owner IN
    /\ stations[id].pricePerWatt = 1
    /\ stations[id].power = 2
    /\ owner # "alice"
    /\ updatePrice(Cur, owner, id, 2).ok
    /\ updatePrice(Cur, WalletAddr, id, 2).ok
    /\ updatePower(Cur, WalletAddr, id, 1).ok
    /\ ~updatePrice(Cur, "alice", id, 2).ok
    /\ ~updatePower(Cur, BookingAddr, id, 1).ok
    /\ ~updatePrice(Cur, owner, id, 0).ok
    /\ ~updatePower(Cur, owner, stationCount, 1).ok

\* The fields of a station that registration fixes.
Identity(station) ==
  <<station.stationUniqueId, station.stationURL, station.owner,
    station.physicalAddress, station.latitude, station.longitude, station.exists>>

\* The step is updatePrice or updatePower of station id called by its owner.
OwnerUpdateStep(id) ==
  LET owner == stations[id].owner
      price == updatePrice(Cur, owner, id, stations'[id].pricePerWatt)
      power == updatePower(Cur, owner, id, stations'[id].power)
  IN /\ deviceLog' = deviceLog
     /\ \/ price.ok /\ Cur' = price.st
        \/ power.ok /\ Cur' = power.st

\* The step is an executeTransaction of the admin that called updatePrice or
\* updatePower of station id on ChargingStation.
ProxyUpdateStep(id) ==
  \E q \in Requests(Cur), gas \in GasCases, t \in BlockTimes :
    /\ q.target = StationAddr
    /\ q.data.fn \in {"updatePrice", "updatePower"}
    /\ q.data.id = id
    /\ LET e == Executed(Cur, admin, q, gas, t)
       IN e.ok /\ Cur' = e.st /\ deviceLog' = deviceLog

\* C26: once registered, a station's unique id, device address, owner,
\* physical address, latitude, longitude and existence flag never change and
\* the station is never deleted; its price and power change only in an
\* updatePrice or updatePower called by the owner or by UserWallet in an
\* executeTransaction of the admin: no deposit, withdrawal, booking, stop or
\* earnings operation changes a station.
C26_StationIdentityFixed ==
  [][/\ stationCount' >= stationCount
     /\ \A id \in DOMAIN stations :
          /\ id \in DOMAIN stations'
          /\ Identity(stations'[id]) = Identity(stations[id])
          /\ stations'[id] # stations[id] => OwnerUpdateStep(id) \/ ProxyUpdateStep(id)]_vars

\* A station as registered except for its price and power, both changed,
\* after a purchase was made at it and stopped with a refund.
C26_Witness ==
  \E id \in DOMAIN stations :
    /\ Identity(stations[id]) = <<"ST-1", "http://device", "op", "1 Main St", MaxLatitude, -MaxLongitude, TRUE>>
    /\ stations[id].pricePerWatt = 1
    /\ stations[id].power = 2
    /\ \E b \in DOMAIN bookings :
         /\ bookings[b].stationId = id
         /\ bookings[b].status = STOPPED
         /\ bookings[b].refundAmount > 0

\* The registrations tried: each argument valid or not, the device address
\* empty or not, latitude and longitude on and just outside their bounds.
RegisterProbes ==
  [uid : {"", "ST-2"}, url : {"", "http://device"}, price : {0, 1}, power : {0, 1},
   paddr : {"", "2 Side St"},
   lat : {-MaxLatitude - 1, -MaxLatitude, MaxLatitude, MaxLatitude + 1},
   lon : {-MaxLongitude - 1, -MaxLongitude, MaxLongitude, MaxLongitude + 1}]

\* C27: registerStation fails with no state change for an empty unique id, a
\* price of 0, a power of 0, an empty physical address, a latitude outside
\* [-90000000, 90000000] or a longitude outside [-180000000, 180000000];
\* otherwise (an empty device address included) it stores the station under
\* id = the station count before the call, with the caller as owner and the
\* given fields, and raises the count by exactly 1; ids are 0, 1, 2, ... and
\* none is written twice.
C27_RegisterStation ==
  /\ DOMAIN stations = 0..(stationCount - 1)
  /\ \A caller \in {"op", "alice"}, x \in RegisterProbes :
       LET r == registerStation(Cur, caller, x.uid, x.url, x.price, x.power, x.paddr, x.lat, x.lon)
           valid == /\ x.uid # ""
                    /\ x.price # 0
                    /\ x.power # 0
                    /\ x.paddr # ""
                    /\ x.lat >= -90000000 /\ x.lat <= 90000000
                    /\ x.lon >= -180000000 /\ x.lon <= 180000000
       IN /\ r.ok <=> valid
          /\ ~r.ok => r.st = Cur
          /\ r.ok =>
               /\ r.ret = stationCount
               /\ r.st.stationCount = stationCount + 1
               /\ r.st.stations =
                    [id \in DOMAIN stations \cup {stationCount} |->
                       IF id = stationCount
                         THEN [stationUniqueId |-> x.uid, stationURL |-> x.url,
                               pricePerWatt |-> x.price, power |-> x.power,
                               owner |-> caller, exists |-> TRUE,
                               physicalAddress |-> x.paddr,
                               latitude |-> x.lat, longitude |-> x.lon]
                       ELSE stations[id]]
               /\ r.st = [Cur EXCEPT !.stations = r.st.stations, !.stationCount = stationCount + 1]

\* Two stations registered one after the other by two owners hold ids 0 and
\* 1, and a third registration would get id 2.
C27_Witness ==
  /\ stationCount = 2
  /\ stations[0].owner = "op"
  /\ stations[1].owner = "bob"
  /\ stations[0].exists /\ stations[1].exists
  /\ registerStation(Cur, "alice", "ST-2", "", 1, 1, "2 Side St", -MaxLatitude, MaxLongitude).ret = 2

\* <<watt, power>> of the purchases whose endpoint is examined, and the
\* decimal numeral of each number among them.
EndpointShapes == {<<1500, 1000>>, <<1, 1>>, <<1050, 907>>, <<20, 2000>>, <<999, 10>>, <<0, 1000>>}

Numeral ==
  (1 :> "1") @@ (10 :> "10") @@ (20 :> "20") @@ (907 :> "907") @@ (999 :> "999")
    @@ (1000 :> "1000") @@ (1050 :> "1050") @@ (1500 :> "1500") @@ (2000 :> "2000")

\* The DeviceControlTriggered events in the log so far.
Toggles == {k \in DOMAIN deviceLog : deviceLog[k].event = "DeviceControlTriggered"}

CreditSenders == EOA \cup {BookingAddr}

CreditValues == {0, 1, 5}

\* C29: creditUserRefund(user) with value v > 0 and a non-null user raises
\* exactly that user's balance by v, and the value UserWallet holds by v; it
\* fails with no state change when v = 0 or the user is null. A bare value
\* transfer to UserWallet raises the value it holds and no user's balance.
C29_RefundCredit ==
  \A caller \in CreditSenders, v \in CreditValues :
    /\ \A user \in EOA \cup {NullAddr} :
         LET r == creditUserRefund(Cur, caller, v, user)
         IN /\ r.ok <=> (v > 0 /\ user # NullAddr)
            /\ ~r.ok => r.st = Cur
            /\ r.ok => r.st = [Cur EXCEPT !.userBalances[user] = @ + v,
                                          !.walletBalance = @ + v]
    /\ LET r == receive(Cur, caller, v)
       IN /\ r.ok
          /\ r.st = [Cur EXCEPT !.walletBalance = @ + v]
          /\ r.st.userBalances = userBalances

\* A stop has refunded a user through creditUserRefund and a bare transfer
\* has reached UserWallet: it holds more than the balances it records.
C29_Witness ==
  /\ \E id \in DOMAIN bookings :
       /\ bookings[id].status = STOPPED
       /\ bookings[id].refundAmount > 0
       /\ userBalances[bookings[id].user] >= bookings[id].refundAmount
  /\ walletBalance = SumBalances(Cur) + 1

\* C30: deposit with value v > 0 raises the caller's balance and the value
\* UserWallet holds by exactly v, a second deposit adding to the first, and
\* fails for v = 0; withdraw(a) succeeds exactly when the caller's balance is
\* at least a, then lowers the caller's balance and the value UserWallet
\* holds by exactly a and pays a to the caller; a failed withdraw changes
\* nothing.
C30_DepositWithdraw ==
  \A caller \in EOA :
    /\ \A v \in CreditValues :
         LET r == deposit(Cur, caller, v)
         IN /\ r.ok <=> v > 0
            /\ ~r.ok => r.st = Cur
            /\ r.ok =>
                 /\ r.st = [Cur EXCEPT !.userBalances[caller] = @ + v,
                                       !.walletBalance = @ + v]
                 /\ \A w \in CreditValues \ {0} :
                      deposit(r.st, caller, w).st =
                        [Cur EXCEPT !.userBalances[caller] = @ + v + w,
                                    !.walletBalance = @ + v + w]
    /\ \A a \in {0, 1, userBalances[caller], userBalances[caller] + 1} :
         LET r == withdraw(Cur, caller, a)
         IN /\ r.ok <=> userBalances[caller] >= a
            /\ ~r.ok => r.st = Cur /\ r.out = <<>>
            /\ r.ok =>
                 /\ r.st = [Cur EXCEPT !.userBalances[caller] = @ - a,
                                       !.walletBalance = @ - a]
                 /\ r.out = <<Payment(caller, a)>>
                 /\ r.st.walletBalance >= 0

\* Value was deposited and value was withdrawn, and a user still holds a
\* balance: all of it can be withdrawn, and not one unit more.
C30_Witness ==
  /\ totals.deposited > 0
  /\ totals.withdrawn > 0
  /\ \E u \in Users :
       /\ userBalances[u] > 1
       /\ withdraw(Cur, u, userBalances[u]).ok
       /\ ~withdraw(Cur, u, userBalances[u] + 1).ok

C32_IncreaseRaisesPrice ==
  \A caller \in StationCallers, id \in StationIds, newPower \in PowerProbes :
    LET r == updatePower(Cur, caller, id, newPower)
    IN (r.ok /\ newPower > StationAt(Cur, id).power) =>
         r.st.stations[id].pricePerWatt > stations[id].pricePerWatt

\* The sum of all owners' accrued earnings.
SumEarnings(S) == SumOver(S.ownerEarnings, DOMAIN S.ownerEarnings)

\* C33: in every reachable state the value ChargingBooking holds equals the
\* sum of all owners' earnings, so neither withdrawEarnings nor emergencyStop
\* ever fails for lack of contract balance.
C33_BalanceIsEarnings ==
  /\ bookingBalance = SumEarnings(Cur)
  /\ \A caller \in EOA \cup {WalletAddr} :
       withdrawEarnings(Cur, caller, 0).err # "Insufficient contract balance"
  /\ \A x \in StopProbes(Cur) :
       emergencyStop(Cur, WalletAddr, 0, x.user, x.bookingId, x.wattsConsumed).err
         # "Insufficient contract balance for refund"

\* Value came in with two purchases at the stations of two owners, and part
\* of it left with the refund of a stop: both owners still have earnings.
C33_Witness ==
  /\ \A owner \in MarketOwners : ownerEarnings[owner] > 0
  /\ \E id \in DOMAIN bookings : bookings[id].status = STOPPED /\ bookings[id].refundAmount > 0
  /\ \E id \in DOMAIN bookings : bookings[id].status = ACTIVE /\ bookings[id].pricePaid > 0
  /\ bookingBalance = ownerEarnings["op"] + ownerEarnings["bob"]

\* The station's price when the booking was bought. The bookings paid for
\* under SpecMarket are all of 1500 watts at 1000, bought at a price of 1 or
\* 2, so that pricePaid (1 or 3) tells the price.
PriceAtPurchase(booking) ==
  CHOOSE p0 \in MarketPrices : ScaledDown(booking.watt * booking.power, p0) = booking.pricePaid

\* What the owner keeps of a stopped booking covers the consumed watts at
\* the price of the purchase.
ConsumptionPaid(booking) ==
  booking.pricePaid - booking.refundAmount
    >= ScaledDown(booking.wattsConsumed * booking.power, PriceAtPurchase(booking))

ConsumedProbes == {0, 400, 1000, 1500}

\* C34: for every STOPPED booking, pricePaid - refundAmount is at least
\* floor(wattsConsumed x power x p0 / 10^6), p0 being the station's price when
\* the booking was bought, whatever updatePrice or updatePower did between
\* the purchase and the stop: for the bookings already stopped, and for
\* every stop that can be made of a paid booking.
C34_ConsumptionPaidAtBookedPrice ==
  /\ \A id \in DOMAIN bookings :
       bookings[id].status = STOPPED => ConsumptionPaid(bookings[id])
  /\ \A id \in DOMAIN bookings, wattsConsumed \in ConsumedProbes :
       LET r == emergencyStop(Cur, WalletAddr, 0, bookings[id].user, id, wattsConsumed)
       IN r.ok => ConsumptionPaid(r.st.bookings[id])

\* C35: in every reachable state, for every ACTIVE booking with pricePaid > 0
\* and every consumption up to the booked watts, an emergencyStop executed
\* by the admin for the booking's user succeeds whenever that user's balance
\* covers the estimated gas cost: nothing another party did in between (the
\* owner's withdrawEarnings, updatePrice, other purchases or stops) makes the
\* refund unobtainable.
C35_StopAlwaysSucceeds ==
  \A id \in DOMAIN bookings, wattsConsumed \in ConsumedProbes, gas \in GasCases, t \in BlockTimes :
    LET booking == bookings[id]
        q == Request(booking.user, BookingAddr, 0, Payload("emergencyStop", booking.user, id, wattsConsumed, 0))
    IN (/\ booking.status = ACTIVE
        /\ booking.pricePaid > 0
        /\ wattsConsumed <= booking.watt
        /\ userBalances[booking.user] >= EstimatedGasCost(gas[2]))
         => Executed(Cur, admin, q, gas, t).ok

\* C36: whenever executeTransaction(payer, ChargingBooking, amount,
\* buyPower(u, ...)) succeeds, payer = u, so that the value paid for a
\* booking was debited from the balance of the booking's recorded user, and
\* the excess of the payment is credited to the identity that was debited:
\* no other balance changes.
C36_PayerIsBookingUser ==
  \A q \in Requests(Cur), gas \in GasCases, t \in BlockTimes :
    LET r == Executed(Cur, admin, q, gas, t)
    IN (q.target = BookingAddr /\ q.data.fn = "buyPower" /\ r.ok) =>
         /\ q.user = q.data.user
         /\ r.st.bookings[bookingCount].user = q.user
         /\ \A a \in Addr \ {q.user} : r.st.userBalances[a] = userBalances[a]

\* C37: in every reachable state every booking's stationId is that of a
\* registered station (no prebookCharging and no buyPower naming a station
\* that was never registered has created one), and buyPower for such a
\* station fails with the state, bookingCount included, as it was.
C37_BookingsAtRegisteredStations ==
  /\ \A id \in DOMAIN bookings : StationAt(Cur, bookings[id].stationId).exists
  /\ \A user \in Users, stationId \in StationIds, value \in {0, 3}, t \in BlockTimes :
       LET r == buyPower(Cur, WalletAddr, value, user, stationId, 1500, 1000, t)
       IN ~StationAt(Cur, stationId).exists => ~r.ok /\ r.st = Cur

\* The EmergencyStopTriggered events in the log so far.
Stops == {k \in DOMAIN deviceLog : deviceLog[k].event = "EmergencyStopTriggered"}

\* The events this step added to the log.
Emitted == SubSeq(deviceLog', Len(deviceLog) + 1, Len(deviceLog'))

\* At most one /toggle and one /stop per booking, the /stop after the
\* /toggle; prebookCharging and failed calls emit nothing.
DescriptorsInOrder ==
  /\ \A i \in DOMAIN deviceLog, j \in DOMAIN deviceLog :
       (deviceLog[i].event = deviceLog[j].event /\ deviceLog[i].bookingId = deviceLog[j].bookingId) => i = j
  /\ \A i \in Stops : \E j \in Toggles : j < i /\ deviceLog[j].bookingId = deviceLog[i].bookingId
  /\ \A k \in Toggles : deviceLog[k].httpEndpoint # "/stop"
  /\ \A k \in Stops : deviceLog[k].httpEndpoint = "/stop"
  /\ \A q \in MarketRequests(Cur) \cup Requests(Cur), gas \in GasCases, t \in BlockTimes :
       LET e == Executed(Cur, admin, q, gas, t)
       IN (~e.ok \/ q.data.fn = "prebookCharging") => e.events = <<>>

\* The log only grows; a step adds at most one event: a /stop for a booking
\* that the step moves from ACTIVE to STOPPED, or a /toggle for the booking
\* it creates.
DescriptorStep ==
  /\ Len(deviceLog') >= Len(deviceLog)
  /\ SubSeq(deviceLog', 1, Len(deviceLog)) = deviceLog
  /\ Len(Emitted) <= 1
  /\ \A k \in DOMAIN Emitted :
       LET ev == Emitted[k] IN
       IF ev.event = "EmergencyStopTriggered"
         THEN /\ bookings[ev.bookingId].status = ACTIVE
              /\ bookings'[ev.bookingId].status = STOPPED
         ELSE /\ ev.event = "DeviceControlTriggered"
              /\ ev.bookingId = bookingCount
              /\ bookingCount' = bookingCount + 1
              /\ bookings'[ev.bookingId].status = ACTIVE
  /\ \A id \in DOMAIN bookings :
       (bookings[id].status = ACTIVE /\ bookings'[id].status = STOPPED) =>
         (Len(Emitted) = 1 /\ Emitted[1].event = "EmergencyStopTriggered" /\ Emitted[1].bookingId = id)

\* C38: over any sequence of operations, for every booking id at most one
\* /toggle descriptor and at most one /stop descriptor is ever emitted; a
\* /stop descriptor is emitted only for a booking whose /toggle descriptor
\* was emitted earlier, and only in the step that moves the booking to
\* STOPPED; prebookCharging and operations that fail emit no descriptor.
C38_DeviceDescriptors == []DescriptorsInOrder /\ [][DescriptorStep]_vars

\* Two purchases each had their /toggle, one of them was stopped, with its
\* /stop after its /toggle, the other is still ACTIVE.
C38_Witness ==
  /\ Cardinality(Toggles) = 2
  /\ Cardinality(Stops) = 1
  /\ \E i \in Stops :
       /\ bookings[deviceLog[i].bookingId].status = STOPPED
       /\ \E j \in Toggles : j > i

\* What makes the booking with an id the booking it is.
BookingIdentity(booking) ==
  <<booking.exists, booking.user, booking.stationId, booking.watt, booking.power, booking.pricePaid, booking.timestamp>>

\* The calls that create a booking, as UserWallet makes them.
CreationProbes(S) ==
  {buyPower(S, WalletAddr, v, u, x[1], x[2], x[3], t) : u \in Users, x \in BuyShapes \cup {<<1, 1500, 1000>>, <<0, 1, 1>>}, v \in {0, 1, 3, 4}, t \in BlockTimes}
    \cup {prebookCharging(S, WalletAddr, 0, u, s, 1500, 1000, t) : u \in Users, s \in StationIds, t \in BlockTimes}

\* Bookings exist exactly for the ids below the count; a creation returns
\* the count and raises it by one, a failed one leaves it; getUserBookings
\* lists a user's booking ids in increasing order, each once.
IdsAllocatedInOrder ==
  /\ getBookingCount(Cur).ret = bookingCount
  /\ \A k \in 0..(MarketBookings + 1) : BookingAt(Cur, k).exists <=> k < bookingCount
  /\ \A r \in CreationProbes(Cur) :
       IF r.ok
         THEN /\ r.ret = bookingCount
              /\ r.st.bookingCount = bookingCount + 1
              /\ r.st.bookings[r.ret].exists
              /\ \A k \in DOMAIN bookings : r.st.bookings[k] = bookings[k]
         ELSE r.st = Cur
  /\ \A u \in Addr \cup {NullAddr} :
       getUserBookings(Cur, u).ret = InOrder({k \in DOMAIN bookings : bookings[k].user = u})

\* The step is a successful executeTransaction with a prebookCharging or a
\* buyPower.
CreationStep ==
  \E q \in MarketRequests(Cur), t \in BlockTimes :
    LET e == Executed(Cur, admin, q, MarketGas, t)
    IN q.data.fn \in {"prebookCharging", "buyPower"} /\ e.ok /\ Cur' = e.st

\* The count never decreases and rises by one, in a creation only; a
\* booking keeps its id and what it was created with.
CountStep ==
  /\ bookingCount' \in {bookingCount, bookingCount + 1}
  /\ bookingCount' = bookingCount + 1 <=> CreationStep
  /\ \A k \in DOMAIN bookings :
       k \in DOMAIN bookings' /\ BookingIdentity(bookings'[k]) = BookingIdentity(bookings[k])

\* C39: the booking count never decreases and increases by exactly 1 on
\* every successful prebookCharging or buyPower and on no other operation; a
\* booking exists for id k exactly when k < bookingCount; the id a creation
\* returns is the count before the call; ids are never reused and a failed
\* creation consumes none; getUserBookings(u) lists in increasing order,
\* each once, the ids of exactly the bookings whose user is u.
C39_BookingIds == []IdsAllocatedInOrder /\ [][CountStep]_vars

\* Two bookings of alice, a pre-booking and a purchase: getUserBookings
\* returns 0, 1 and the count is 2.
C39_Witness ==
  /\ bookingCount = 2
  /\ getUserBookings(Cur, "alice").ret = <<0, 1>>
  /\ \E k \in DOMAIN bookings : bookings[k].pricePaid = 0 /\ bookings[k].watt = 1500
  /\ \E k \in DOMAIN bookings : bookings[k].pricePaid > 0

\* The balances of everyone but `user` are in S2 what they are in S1.
OthersKept(S1, S2, user) ==
  \A a \in Addr \ {user} : BalanceOf(S2, a) = BalanceOf(S1, a)

\* What deposit, withdraw and the executeTransaction of a user's own request
\* to ChargingBooking leave alone, and the operations that change no balance.
BalanceFrame ==
  /\ \A q \in Requests(Cur), gas \in GasCases, t \in BlockTimes :
       LET e == Executed(Cur, admin, q, gas, t)
       IN (q.target = BookingAddr /\ q.data.user = q.user /\ e.ok) => OthersKept(Cur, e.st, q.user)
  /\ \A caller \in EOA, value \in DepositValues \cup {1} :
       OthersKept(Cur, deposit(Cur, caller, value).st, caller)
  /\ \A caller \in EOA :
       \A amount \in {0, 1, userBalances[caller], userBalances[caller] + 1} :
         OthersKept(Cur, withdraw(Cur, caller, amount).st, caller)
  /\ \A caller \in EOA :
       /\ \A value \in BareValues : receive(Cur, caller, value).st.userBalances = userBalances
       /\ \A newAdmin \in AdminCandidates : changeAdmin(Cur, caller, newAdmin).st.userBalances = userBalances
       /\ \A x \in RegisterCases :
            registerStation(Cur, caller, x.uid, x.url, x.price, x.power, x.paddr, x.lat, x.lon).st.userBalances = userBalances
       /\ \A id \in StationIds, v \in NewPowerValues \cup NewPriceValues :
            /\ updatePower(Cur, caller, id, v).st.userBalances = userBalances
            /\ updatePrice(Cur, caller, id, v).st.userBalances = userBalances
       /\ withdrawEarnings(Cur, caller, 0).st.userBalances = userBalances
       /\ \A data \in DirectPayloads \cup BuyPayloads, value \in {0, 3}, t \in BlockTimes :
            CallBooking(Cur, caller, value, data, t).st.userBalances = userBalances

\* The step is a successful deposit, withdraw, executeTransaction or
\* creditUserRefund.
BalanceOperationStep ==
  \/ \E caller \in EOA, value \in DepositValues :
       LET r == deposit(Cur, caller, value) IN r.ok /\ Cur' = r.st
  \/ \E caller \in EOA :
       \E amount \in {0, userBalances[caller]} :
         LET r == withdraw(Cur, caller, amount) IN r.ok /\ Cur' = r.st
  \/ \E caller \in EOA, user \in Users, value \in DepositValues :
       LET r == creditUserRefund(Cur, caller, value, user) IN r.ok /\ Cur' = r.st
  \/ \E q \in Requests(Cur), gas \in GasCases, t \in BlockTimes :
       LET e == Executed(Cur, admin, q, gas, t) IN e.ok /\ Cur' = e.st

\* C40: a successful executeTransaction(user, ChargingBooking, amount,
\* payload) whose payload names the same user leaves every other user's
\* balance unchanged; deposit and withdraw change no balance but the
\* caller's; and balances change in no operation other than deposit,
\* withdraw, executeTransaction and creditUserRefund.
C40_BalanceFrame ==
  []BalanceFrame /\ [][userBalances' # userBalances => BalanceOperationStep]_vars

\* alice and bob both have a balance, and a purchase executed for alice
\* from here succeeds and lowers hers.
C40_Witness ==
  /\ userBalances["alice"] > 0
  /\ userBalances["bob"] > 0
  /\ \E q \in Requests(Cur), gas \in GasCases, t \in BlockTimes :
       LET e == Executed(Cur, admin, q, gas, t)
       IN /\ q.user = "alice" /\ q.data.user = "alice" /\ q.data.fn = "buyPower"
          /\ e.ok
          /\ e.st.userBalances["alice"] < userBalances["alice"]
          /\ e.st.userBalances["bob"] = userBalances["bob"]

====
